---- MODULE Spec2Model ----
(***************************************************************************)
(* State-machine model of the 2kcomp league bot's aggregation engine:      *)
(* milestone detection (core/milestones.py, bot.py milestones_monitor),    *)
(* the leaders calculation (core/leaders.py, core/sportspress.py), the     *)
(* single-game records scan (core/records.py) and the HTTP client with its *)
(* retries, pagination and concurrency gate (core/http.py).                *)
(* Python dicts are functions whose DOMAIN is the set of keys present;     *)
(* Python lists are sequences; float totals are modelled by naturals.      *)
(***************************************************************************)
EXTENDS Naturals, Integers, Sequences, FiniteSets, TLC

VARIABLES
    upstream,         \* totals the upstream API serves at the current poll
    fetch,            \* outcome of the last poll's fetch: "none","ok","empty","error"
    last_totals,      \* dict str(player id) -> dict stat -> value handed to the next pass
    milestones_sent,  \* dict key -> dict stat -> list of announced thresholds
    notifications,    \* list of MilestoneNotification returned by the last pass
    notified,         \* history: how often each (player id, stat, threshold) was notified
    passes,           \* number of passes / poll cycles run so far
    io                \* outcome of the last poll cycle's announce and save: "none","ok","send_failed","save_failed"

mvars == <<upstream, fetch, last_totals, milestones_sent, notifications, notified, passes, io>>

VARIABLES
    l_seasons,        \* what the upstream serves per season: season -> player id -> stat -> value
    l_call,           \* the last leaders computation: its mode, n and the seasons whose fetch failed
    leaders           \* the LeadersData it returned

lvars == <<l_seasons, l_call, leaders>>

VARIABLES
    lc_current,       \* leaders_changed: the current LeadersData
    lc_previous,      \* leaders_changed: the previous LeadersData
    lc_changes        \* leaders_changed: the returned dict stat -> bool, empty before the call

cvars == <<lc_current, lc_previous, lc_changes>>

VARIABLES
    r_pc,             \* compute_single_game_records: "idle","fetch","fold","done"
    r_page,           \* page number of the next events request
    r_stop,           \* what ended the page loop: "none","empty","400","status","error","max_pages"
    r_events,         \* events collected by the page loop
    r_done,           \* number of collected events the fold loop has gone through
    records           \* the RecordsData being built, and returned once r_pc = "done"

rvars == <<r_pc, r_page, r_stop, r_events, r_done, records>>

VARIABLES
    t_current,        \* _try_update_max: the incumbent record, None when unset
    t_candidate,      \* _try_update_max: the candidate
    t_result          \* _try_update_max: the returned record, NotCalled before the call

tvars == <<t_current, t_candidate, t_result>>

VARIABLES
    d_row,            \* _check_double_triple_doubles: the row
    d_records         \* _check_double_triple_doubles: the achievement lists, NotCalled before the call

dvars == <<d_row, d_records>>

VARIABLES
    h_pc,             \* HTTPClient.paginate: "idle","run","done","raised"
    h_page,           \* page number of the current get_json call
    h_attempt,        \* attempts get_json has made for the current call
    h_yielded,        \* items yielded to the consumer so far
    h_log,            \* history: the (page, attempt, answer) of every request issued
    h_error           \* the exception that reached the consumer, "none" if none

hvars == <<h_pc, h_page, h_attempt, h_yielded, h_log, h_error>>

VARIABLES
    g_waiting,        \* get_json calls waiting for _rate_limit_semaphore
    g_gated,          \* get_json calls holding the semaphore with their request in flight
    g_direct          \* requests in flight issued on client.session by the records scan

gvars == <<g_waiting, g_gated, g_direct>>

VARIABLES
    f_files,          \* the state file and its temporary file: path -> content
    s_pc,             \* StateManager.save_state: "idle","call","temp_open","dumped","returned","crashed"
    s_state,          \* the BotState handed to save_state
    s_old,            \* history: the content of the state file when save_state was called
    s_result          \* what save_state returned: "none","True","False"

svars == <<f_files, s_pc, s_state, s_old, s_result>>

VARIABLES
    ld_content,       \* StateManager.load_state: what is at state_path
    ld_result         \* what load_state did: NotCalled before the call

ldvars == <<ld_content, ld_result>>

VARIABLES
    lm_pc,            \* leaders_monitor: "idle","sending"
    lm_fetch,         \* outcome of the cycle's season-leaders fetch: "none","ok","error"
    lm_current,       \* current_leaders of the cycle
    lm_sent,          \* the cycle sent a leaders-update announcement
    lm_saved,         \* the cycle wrote last_leaders to the state file
    mm_pc,            \* milestones_monitor: "idle","scanning","sending"
    mm_updated,       \* (updated_totals, updated_milestones) of the cycle
    w_leaders,        \* history: the last value update_leaders saved, NoWrite if none
    w_milestones,     \* history: the last value update_milestones saved, NoWrite if none
    b_cycles          \* poll cycles started so far

bvars == <<lm_pc, lm_fetch, lm_current, lm_sent, lm_saved, mm_pc, mm_updated, w_leaders, w_milestones, b_cycles>>

VARIABLES
    n_cache,          \* _player_names and _team_names: (kind, id) -> name
    n_pending,        \* task -> the lookup it awaits, NoLookup if it awaits none
    n_lookups,        \* history: upstream lookups issued per (kind, id) since the last clear
    n_resolved,       \* history: the (kind, id) for which a looked-up name was returned since the last clear
    n_last,           \* the last call that returned: its key, its name, whether the cache answered
    n_calls           \* calls made so far

nvars == <<n_cache, n_pending, n_lookups, n_resolved, n_last, n_calls>>

VARIABLES
    e_event,          \* _extract_rows_from_event: the event payload
    e_result          \* what the call did: NotCalled before it, else raises / rows

evars == <<e_event, e_result>>

VARIABLES
    k_pc,             \* monitor_records: "start" before load_previous_records, then "loop"
    k_file,           \* data/previous_records.json: None if absent, else the saved records
    previous_records, \* RecordMonitor.previous_records
    k_best,           \* history: per record type the largest value remembered before the last cycle
    k_announced,      \* record types the last cycle announced as new
    k_cycles          \* cycles of monitor_records run so far

kvars == <<k_pc, k_file, previous_records, k_best, k_announced, k_cycles>>

yvars == <<svars, ldvars, bvars, nvars, evars, kvars>>

xvars == <<rvars, tvars, dvars, hvars, gvars, yvars>>

vars == <<mvars, lvars, cvars, xvars>>

----------------------------------------------------------------------------
(* Bounds of the model *)

MaxThresholds == 2    \* thresholds modelled per statistic (prefix of each list)
MaxPasses == 3        \* passes / poll cycles per behaviour
MaxValue == 2         \* largest season total of a player in the leaders model
MaxN == 3             \* largest n asked of the leaders computation
MaxLeaders == 4       \* longest leaders list handed to leaders_changed

Players == {1, 2}                      \* player ids served by the upstream
Stats == {"points", "steals"}          \* statistics modelled, a subset of MILESTONES.keys()

----------------------------------------------------------------------------
(* Dict helpers *)

EmptyDict == <<>>

\* dict.get(key, default)
Get(d, k, default) == IF k \in DOMAIN d THEN d[k] ELSE default

\* d[k] = v on a copy of d
Put(d, k, v) == (k :> v) @@ d

Range(s) == {s[i] : i \in DOMAIN s}

----------------------------------------------------------------------------
(* core/milestones.py *)

MILESTONES ==
    [points      |-> <<100, 250, 500, 750, 1000, 1500, 2000>>,
     assists     |-> <<50, 100, 250, 500, 750, 1000>>,
     rebounds    |-> <<50, 100, 250, 500, 750, 1000>>,
     steals      |-> <<25, 50, 100, 200, 300>>,
     blocks      |-> <<25, 50, 100, 200, 300>>,
     threes_made |-> <<25, 50, 100, 200, 300>>]

\* the statistics in MILESTONES.keys() order, restricted to the modelled ones
StatOrder ==
    SelectSeq(<<"points", "assists", "rebounds", "steals", "blocks", "threes_made">>,
              LAMBDA s : s \in Stats)

\* the thresholds of a statistic that the model's totals can reach
Thresholds(stat) == SubSeq(MILESTONES[stat], 1, MaxThresholds)

\* totals the upstream may report for a statistic: zero and each modelled threshold
Values(stat) == {0} \cup Range(Thresholds(stat))

\* str(player_id)
IdStr(p) == <<"1", "2", "3", "4">>[p]

\* display name the upstream reports for a player id: any string; player 2's name
\* is the digit string of its own id, so str(name) and str(id) coincide for it
PlayerName(p) == <<"Ann", "2", "Cyd", "Dee">>[p]

\* the (player id, statistic, threshold) triples of the model
Triples == UNION {{<<p, s, t>> : t \in Range(Thresholds(s))} : p \in Players, s \in Stats}

\* PlayerTotals(player_id, name, points, ...): the statistics are the function tot
PlayerTotals(p, tot) == [player_id |-> p, name |-> PlayerName(p), tot |-> tot]

ZeroTotals == [s \in Stats |-> 0]

\* the dict built by get_current_season_totals from the fetched players, as the
\* sequence of its values in insertion order (here: ascending player id)
RECURSIVE TotalsFrom(_, _)
TotalsFrom(up, p) ==
    IF p \notin Players THEN <<>>
    ELSE (IF up[p].present THEN <<PlayerTotals(p, up[p].tot)>> ELSE <<>>)
         \o TotalsFrom(up, p + 1)

\* get_current_season_totals: a failed fetch is caught and yields {}
get_current_season_totals(outcome, up) ==
    IF outcome = "error" THEN <<>> ELSE TotalsFrom(up, 1)

\* mutant: the lower end of the interval taken as closed
CrossedThresholdsClosed(previous_total, current_total, thresholds) ==
    SelectSeq(thresholds, LAMBDA threshold :
        previous_total <= threshold /\ threshold <= current_total)

\* _get_crossed_thresholds
_get_crossed_thresholds(previous_total, current_total, thresholds) ==
    SelectSeq(thresholds, LAMBDA threshold :
        previous_total < threshold /\ threshold <= current_total)

\* body of the per-statistic loop of detect_milestone_crossings: new_thresholds
new_thresholds(player_totals, stat, lt, ms) ==
    LET player_id_str == IdStr(player_totals.player_id)
        previous_totals == Get(lt, player_id_str, EmptyDict)
        player_milestones_sent == Get(ms, player_id_str, EmptyDict)
        current_value == player_totals.tot[stat]
        previous_value == Get(previous_totals, stat, 0)
        crossed_thresholds ==
            _get_crossed_thresholds(previous_value, current_value, Thresholds(stat))
        sent_thresholds == Range(Get(player_milestones_sent, stat, <<>>))
    IN SelectSeq(crossed_thresholds, LAMBDA t : t \notin sent_thresholds)

\* MilestoneNotification(player=name, stat, value, threshold)
MilestoneNotification(player_totals, stat, threshold) ==
    [player |-> player_totals.name, stat |-> stat,
     value |-> player_totals.tot[stat], threshold |-> threshold]

\* the notifications of one player and one statistic
StatNotifications(player_totals, stat, lt, ms) ==
    LET nt == new_thresholds(player_totals, stat, lt, ms)
    IN [i \in 1..Len(nt) |-> MilestoneNotification(player_totals, stat, nt[i])]

\* the loop over MILESTONES.keys() for one player
RECURSIVE PlayerNotifications(_, _, _, _)
PlayerNotifications(player_totals, stats, lt, ms) ==
    IF stats = <<>> THEN <<>>
    ELSE StatNotifications(player_totals, Head(stats), lt, ms)
         \o PlayerNotifications(player_totals, Tail(stats), lt, ms)

\* detect_milestone_crossings: the loop over current_totals.items()
RECURSIVE detect_milestone_crossings(_, _, _)
detect_milestone_crossings(current_totals, lt, ms) ==
    IF current_totals = <<>> THEN <<>>
    ELSE PlayerNotifications(Head(current_totals), StatOrder, lt, ms)
         \o detect_milestone_crossings(Tail(current_totals), lt, ms)

\* mutant: the stored totals are not brought up to the current totals
UpdateLastTotalsStale(lt, current_totals) == lt

\* update_milestone_state, lines 218-229: updated_last_totals
RECURSIVE UpdateLastTotals(_, _)
UpdateLastTotals(lt, current_totals) ==
    IF current_totals = <<>> THEN lt
    ELSE LET player_totals == Head(current_totals)
         IN UpdateLastTotals(
                Put(lt, IdStr(player_totals.player_id), player_totals.tot),
                Tail(current_totals))

\* the key update_milestone_state files a notification under
SentKey(notification) == notification.player

\* mutant: the list of a key and statistic is overwritten instead of appended to
RECURSIVE UpdateMilestonesSentOverwrite(_, _)
UpdateMilestonesSentOverwrite(ms, notifs) ==
    IF notifs = <<>> THEN ms
    ELSE LET notification == Head(notifs)
             inner == Get(ms, notification.player, EmptyDict)
         IN UpdateMilestonesSentOverwrite(
                Put(ms, notification.player,
                    Put(inner, notification.stat, <<notification.threshold>>)),
                Tail(notifs))

\* update_milestone_state, lines 231-243: updated_milestones_sent
RECURSIVE UpdateMilestonesSent(_, _)
UpdateMilestonesSent(ms, notifs) ==
    IF notifs = <<>> THEN ms
    ELSE LET notification == Head(notifs)
             player_id_str == SentKey(notification)
             inner == Get(ms, player_id_str, EmptyDict)
             sent == Get(inner, notification.stat, <<>>)
         IN UpdateMilestonesSent(
                Put(ms, player_id_str,
                    Put(inner, notification.stat, Append(sent, notification.threshold))),
                Tail(notifs))

\* update_milestone_state
update_milestone_state(current_totals, notifs, lt, ms) ==
    [last_totals |-> UpdateLastTotals(lt, current_totals),
     milestones_sent |-> UpdateMilestonesSent(ms, notifs)]

\* mutant: a failed or empty fetch hands back an empty state
ScanResetOnFailure(outcome, up, lt, ms) ==
    LET current_totals == get_current_season_totals(outcome, up)
    IN IF current_totals = <<>>
       THEN [notifications |-> <<>>, last_totals |-> EmptyDict, milestones_sent |-> EmptyDict]
       ELSE LET notifs == detect_milestone_crossings(current_totals, lt, ms)
                updated == update_milestone_state(current_totals, notifs, lt, ms)
            IN [notifications |-> notifs,
                last_totals |-> updated.last_totals,
                milestones_sent |-> updated.milestones_sent]

\* scan_and_detect_crossings
scan_and_detect_crossings(outcome, up, lt, ms) ==
    LET current_totals == get_current_season_totals(outcome, up)
    IN IF current_totals = <<>>
       THEN [notifications |-> <<>>, last_totals |-> lt, milestones_sent |-> ms]
       ELSE LET notifs == detect_milestone_crossings(current_totals, lt, ms)
                updated == update_milestone_state(current_totals, notifs, lt, ms)
            IN [notifications |-> notifs,
                last_totals |-> updated.last_totals,
                milestones_sent |-> updated.milestones_sent]

----------------------------------------------------------------------------
(* core/leaders.py and core/sportspress.py: leaders *)

LPlayers == {1, 2, 3}                  \* player ids of the leaders model
LStats == {"points", "assists"}        \* statistics of the leaders model
Seasons == {1, 2}                      \* season_queries, by position

\* the statistics in the order the leaders loops visit them
LStatOrder ==
    SelectSeq(<<"points", "assists", "rebounds", "steals", "blocks", "threes_made">>,
              LAMBDA s : s \in LStats)

\* display names of the players; they differ in case
LName(p) == <<"ann", "Bob", "bob", "Cy">>[p]

\* str.lower()
Lower(name) ==
    CASE name = "ann" -> "ann"
      [] name = "Bob" -> "bob"
      [] name = "bob" -> "bob"
      [] name = "Cy"  -> "cy"
      [] name = "cy"  -> "cy"

\* Python's string order (by code point): position in the ascending list
StrRank(name) ==
    CHOOSE i \in 1..5 : <<"Bob", "Cy", "ann", "bob", "cy">>[i] = name

Min(a, b) == IF a <= b THEN a ELSE b

\* list[:n] for n >= 0
Slice(l, n) == SubSeq(l, 1, Min(n, Len(l)))

\* PlayerStats(id, name, **meta_stats)
PlayerStats(p, st) == [id |-> p, name |-> LName(p), stats |-> st]

\* the players one season's pagination yields, in upstream order (ascending id)
RECURSIVE SeasonPlayers(_, _)
SeasonPlayers(season, p) ==
    IF p \notin LPlayers THEN <<>>
    ELSE <<PlayerStats(p, season[p])>> \o SeasonPlayers(season, p + 1)

\* fetch_players_for_season: the player list, or "error" when pagination raises
fetch_players_for_season(failed, season) ==
    IF failed THEN "error" ELSE SeasonPlayers(season, 1)

\* mutant: one failed season empties every season's list
FetchAllDropEverything(failedSet, seasons) ==
    [q \in 1..Cardinality(Seasons) |->
        IF failedSet # {} THEN <<>> ELSE fetch_players_for_season(FALSE, seasons[q])]

\* fetch_all_players_seasons: a failed season is caught and contributes []
fetch_all_players_seasons(failedSet, seasons) ==
    [q \in 1..Cardinality(Seasons) |->
        LET players == fetch_players_for_season(q \in failedSet, seasons[q])
        IN IF players = "error" THEN <<>> ELSE players]

\* aggregate_player_stats, loop body: add one player to the aggregated dict (kept as
\* the sequence of its values in insertion order)
AggregateOne(aggregated, player) ==
    IF \E i \in DOMAIN aggregated : aggregated[i].id = player.id
    THEN [i \in DOMAIN aggregated |->
            IF aggregated[i].id = player.id
            THEN [id |-> player.id, name |-> player.name,
                  stats |-> [s \in LStats |-> aggregated[i].stats[s] + player.stats[s]]]
            ELSE aggregated[i]]
    ELSE Append(aggregated, player)

RECURSIVE AggregateSeason(_, _)
AggregateSeason(aggregated, season) ==
    IF season = <<>> THEN aggregated
    ELSE AggregateSeason(AggregateOne(aggregated, Head(season)), Tail(season))

\* aggregate_player_stats
RECURSIVE aggregate_player_stats(_, _)
aggregate_player_stats(aggregated, season_players) ==
    IF season_players = <<>> THEN aggregated
    ELSE aggregate_player_stats(AggregateSeason(aggregated, Head(season_players)),
                                Tail(season_players))

\* mutant: ties ordered by the name as written, not lower-cased
SortKeyLessRaw(a, b) ==
    \/ a.value > b.value
    \/ a.value = b.value /\ StrRank(a.name) < StrRank(b.name)

\* the sort key (-x[1], x[0].lower()), compared as Python compares tuples
SortKeyLess(a, b) ==
    \/ a.value > b.value
    \/ a.value = b.value /\ StrRank(Lower(a.name)) < StrRank(Lower(b.name))

\* list.sort is stable: an element goes behind the elements whose key is not greater
RECURSIVE InsertStable(_, _)
InsertStable(sorted, x) ==
    IF sorted = <<>> THEN <<x>>
    ELSE IF SortKeyLess(x, Head(sorted)) THEN <<x>> \o sorted
    ELSE <<Head(sorted)>> \o InsertStable(Tail(sorted), x)

RECURSIVE SortStable(_, _)
SortStable(sorted, rest) ==
    IF rest = <<>> THEN sorted
    ELSE SortStable(InsertStable(sorted, Head(rest)), Tail(rest))

\* _stable_sort_leaders
_stable_sort_leaders(players, stat) ==
    LET positive == SelectSeq(players, LAMBDA player : player.stats[stat] > 0)
        stat_values == [i \in 1..Len(positive) |->
                          [name |-> positive[i].name, value |-> positive[i].stats[stat]]]
    IN SortStable(<<>>, stat_values)

\* LeadersData()
EmptyLeaders == [s \in LStats |-> <<>>]

\* the per-statistic loop shared by both modes: sorted_players[:n] as LeaderEntry
LeadersOf(players, n) == [s \in LStats |-> Slice(_stable_sort_leaders(players, s), n)]

\* top_n_season_leaders
top_n_season_leaders(failed, season, n) ==
    LET players == fetch_players_for_season(failed, season)
    IN IF players = "error" THEN EmptyLeaders ELSE LeadersOf(players, n)

\* top_n_career_leaders
top_n_career_leaders(failedSet, seasons, n) ==
    LET season_players == fetch_all_players_seasons(failedSet, seasons)
        players_list == aggregate_player_stats(<<>>, season_players)
    IN LeadersOf(players_list, n)

\* season totals the upstream may hold for a player and statistic: the current
\* season (1) varies in points for everyone and in assists for player 1, the older
\* season holds points of players 1 and 2
SeasonValues(q, p, s) ==
    IF q = 1
    THEN IF s = "points" THEN 0..MaxValue ELSE IF p = 1 THEN 0..1 ELSE {0}
    ELSE IF s = "points" /\ p <= 2 THEN 0..1 ELSE {0}

SeasonData(q) ==
    {season \in [LPlayers -> [LStats -> 0..MaxValue]] :
        \A p \in LPlayers, s \in LStats : season[p][s] \in SeasonValues(q, p, s)}

NoCall == [mode |-> "none", n |-> 0, failed |-> {}]

LIdle ==
    /\ l_seasons = [q \in Seasons |-> [p \in LPlayers |-> [s \in LStats |-> 0]]]
    /\ l_call = NoCall
    /\ leaders = EmptyLeaders

LInit ==
    /\ l_seasons \in {f \in [Seasons -> UNION {SeasonData(q) : q \in Seasons}] :
                        \A q \in Seasons : f[q] \in SeasonData(q)}
    /\ l_call = NoCall
    /\ leaders = EmptyLeaders

\* a season-mode computation over the leaders endpoint (the first season)
SeasonLeaders(failed, n) ==
    /\ l_call' = [mode |-> "season", n |-> n, failed |-> IF failed THEN {1} ELSE {}]
    /\ leaders' = top_n_season_leaders(failed, l_seasons[1], n)
    /\ UNCHANGED <<l_seasons, mvars, cvars, xvars>>

\* a career-mode computation over all seasons
CareerLeaders(failedSet, n) ==
    /\ l_call' = [mode |-> "career", n |-> n, failed |-> failedSet]
    /\ leaders' = top_n_career_leaders(failedSet, l_seasons, n)
    /\ UNCHANGED <<l_seasons, mvars, cvars, xvars>>

\* number of leading entries leaders_changed compares
TopCompared == 3

\* mutant: the whole lists are compared
LeadersChangedWholeList(current, previous) ==
    [s \in LStats |-> current[s] # previous[s]]

\* leaders_changed
leaders_changed(current, previous) ==
    [s \in LStats |->
        LET current_top3 == [i \in 1..Min(TopCompared, Len(current[s])) |->
                               <<current[s][i].name, current[s][i].value>>]
            previous_top3 == [i \in 1..Min(TopCompared, Len(previous[s])) |->
                                <<previous[s][i].name, previous[s][i].value>>]
        IN current_top3 # previous_top3]

\* LeaderEntry values handed to leaders_changed
LeaderEntries ==
    {[name |-> "ann", value |-> 2], [name |-> "Bob", value |-> 2], [name |-> "ann", value |-> 1]}

\* leaders lists as the leaders computation leaves them: ordered by value descending,
\* ties by lower-cased name
LeaderLists(maxLen) ==
    {l \in UNION {[1..k -> LeaderEntries] : k \in 0..maxLen} :
        \A i \in 1..Len(l), j \in 1..Len(l) : i < j => ~SortKeyLess(l[j], l[i])}

\* LeadersData values handed to leaders_changed: the points list varies up to
\* MaxLeaders entries, every other list is empty or holds one fixed entry
LeadersDataSet ==
    {d \in [LStats -> LeaderLists(MaxLeaders)] :
        \A s \in LStats :
            s # "points" => d[s] \in {<<>>, <<[name |-> "ann", value |-> 1]>>}}

\* value of lc_changes before leaders_changed has returned
NoChanges == <<>>

CIdle ==
    /\ lc_current = EmptyLeaders
    /\ lc_previous = EmptyLeaders
    /\ lc_changes = NoChanges

CInit ==
    /\ lc_current \in LeadersDataSet
    /\ lc_previous \in LeadersDataSet
    /\ lc_changes = NoChanges

\* one call of leaders_changed
LeadersChanged ==
    /\ lc_changes = NoChanges
    /\ lc_changes' = leaders_changed(lc_current, lc_previous)
    /\ UNCHANGED <<lc_current, lc_previous, mvars, lvars, xvars>>

----------------------------------------------------------------------------
(* Single-game records: core/records.py *)

MaxRecValue == 2      \* largest value of a record or candidate handed to _try_update_max
MaxEventPages == 2    \* pages the events scan requests per behaviour (max_pages in the code)

\* Python None, for an Optional[SingleGameRecord] and for an Optional[int]
None == [unset |-> TRUE]
NoId == 0

\* value of a result variable before the function was called
NotCalled == [called |-> FALSE]

\* settings.MIN_FGA_FOR_FG_PERCENT and settings.MIN_3PA_FOR_3P_PERCENT (defaults)
MIN_FGA_FOR_FG_PERCENT == 10
MIN_3PA_FOR_3P_PERCENT == 6

\* the statistics _check_double_triple_doubles looks at, in the order of stats_to_check
StatsToCheck == <<"points", "rebounds", "assists", "steals", "blocks">>

\* the statistics whose record is kept without a minimum
CountStats == <<"points", "rebounds", "assists", "steals", "blocks", "threes_made">>

\* threshold of a double-digit category
DoubleDigit == 10

RecordCandidate(stat, value, holder, game, date, player_id) ==
    [stat |-> stat, value |-> value, holder |-> holder, game |-> game, date |-> date,
     player_id |-> player_id]

\* SingleGameRecord as _try_update_max builds it: player_id stays None unless the
\* candidate's is truthy (team_id, opp_team_id, game_url, player_url are copied the same way)
SingleGameRecord(candidate) ==
    [stat |-> candidate.stat, value |-> candidate.value, holder |-> candidate.holder,
     game |-> candidate.game, date |-> candidate.date,
     player_id |-> IF candidate.player_id # NoId THEN candidate.player_id ELSE NoId]

\* mutant: the candidate always replaces the incumbent
TryUpdateMaxLast(current, candidate) == SingleGameRecord(candidate)

\* mutant: a tie replaces the incumbent
TryUpdateMaxOnTie(current, candidate) ==
    IF current = None \/ candidate.value >= current.value
    THEN SingleGameRecord(candidate)
    ELSE current

_try_update_max(current, candidate) ==
    IF current = None \/ candidate.value > current.value
    THEN SingleGameRecord(candidate)
    ELSE current

\* RecordsData()
RecordsData ==
    [points |-> None, rebounds |-> None, assists |-> None, steals |-> None,
     blocks |-> None, threes_made |-> None, fg_percent |-> None, threep_percent |-> None,
     double_doubles |-> <<>>, triple_doubles |-> <<>>]

\* double_digit_categories: the statistics of stats_to_check with value >= 10, in order
DoubleDigitCategories(row) == SelectSeq(StatsToCheck, LAMBDA stat : row[stat] >= DoubleDigit)

Achievement(row, categories) ==
    [player |-> row.name, game |-> row.game, date |-> row.date,
     categories |-> categories,
     values |-> [stat \in Range(categories) |-> row[stat]],
     player_id |-> row.player_id]

\* mutant: the second branch is not an elif
CheckDoublesNoElif(recs, row) ==
    LET categories == DoubleDigitCategories(row)
        withTriple == IF Len(categories) >= 3
                      THEN [recs EXCEPT !.triple_doubles = Append(@, Achievement(row, categories))]
                      ELSE recs
    IN IF Len(categories) >= 2
       THEN [withTriple EXCEPT !.double_doubles = Append(@, Achievement(row, categories))]
       ELSE withTriple

_check_double_triple_doubles(recs, row) ==
    LET categories == DoubleDigitCategories(row)
    IN IF Len(categories) >= 3
       THEN [recs EXCEPT !.triple_doubles = Append(@, Achievement(row, categories))]
       ELSE IF Len(categories) >= 2
            THEN [recs EXCEPT !.double_doubles = Append(@, Achievement(row, categories))]
            ELSE recs

\* the candidate a row puts up for a statistic
RowCandidate(row, stat) ==
    RecordCandidate(stat, row[stat], row.name, row.game, row.date, row.player_id)

RECURSIVE FoldCountStats(_, _, _)
FoldCountStats(recs, row, stats) ==
    IF stats = <<>> THEN recs
    ELSE LET stat == Head(stats)
         IN FoldCountStats([recs EXCEPT ![stat] = _try_update_max(@, RowCandidate(row, stat))],
                           row, Tail(stats))

\* mutant: the percentage records have no minimum number of attempts
FoldPercentagesNoMinimum(recs, row) ==
    [recs EXCEPT !.fg_percent = _try_update_max(@, RowCandidate(row, "fg_percent")),
                 !.threep_percent = _try_update_max(@, RowCandidate(row, "threep_percent"))]

FoldPercentages(recs, row) ==
    LET fg == IF row.fga >= MIN_FGA_FOR_FG_PERCENT
              THEN [recs EXCEPT !.fg_percent = _try_update_max(@, RowCandidate(row, "fg_percent"))]
              ELSE recs
    IN IF row.threepa >= MIN_3PA_FOR_3P_PERCENT
       THEN [fg EXCEPT !.threep_percent = _try_update_max(@, RowCandidate(row, "threep_percent"))]
       ELSE fg

\* the body of `for row in player_rows`
FoldRow(recs, row) ==
    _check_double_triple_doubles(FoldPercentages(FoldCountStats(recs, row, CountStats), row), row)

RECURSIVE FoldRows(_, _)
FoldRows(recs, rows) ==
    IF rows = <<>> THEN recs ELSE FoldRows(FoldRow(recs, Head(rows)), Tail(rows))

\* mutant: an event whose extraction raises discards what was folded before it
FoldEventReset(recs, event) ==
    IF event.raises THEN RecordsData ELSE FoldRows(recs, event.rows)

\* the body of `for event in events`: _extract_rows_from_event raises before any row
\* is folded, the except clause logs and continues
FoldEvent(recs, event) ==
    IF event.raises THEN recs ELSE FoldRows(recs, event.rows)

\* EventPlayerRow: the fields the records computation reads
EventPlayerRow(name, points, assists, fga, fg_percent, threepa, threep_percent) ==
    [name |-> name, game |-> "Team 1 vs Team 2", date |-> "2024-01-15",
     points |-> points, rebounds |-> 12, assists |-> assists, steals |-> 0, blocks |-> 0,
     threes_made |-> 2, fga |-> fga, fg_percent |-> fg_percent,
     threepa |-> threepa, threep_percent |-> threep_percent,
     player_id |-> IF name = "A" THEN 7 ELSE NoId]

\* rows the modelled events carry: two players, two point totals, and either enough
\* attempts for the percentage records (exactly the minimum) or one attempt too few
\* with a perfect percentage; all rows tie on rebounds
SampleRows ==
    {EventPlayerRow(name, points, IF name = "B" THEN 11 ELSE 3,
                    sh[1], sh[2], sh[3], sh[4]) :
        name \in {"A", "B"}, points \in {40, 55},
        sh \in {<<MIN_FGA_FOR_FG_PERCENT, 50, MIN_3PA_FOR_3P_PERCENT, 40>>,
                <<MIN_FGA_FOR_FG_PERCENT - 1, 100, MIN_3PA_FOR_3P_PERCENT - 1, 100>>}}

\* an event as the scan sees it: whether it has a performance or boxscore entry,
\* whether _extract_rows_from_event raises on it, and the rows it yields otherwise
Event(has_data, raises, rows) == [has_data |-> has_data, raises |-> raises, rows |-> rows]

SampleEvents ==
    {Event(TRUE, FALSE, <<row>>) : row \in SampleRows}
    \cup {Event(TRUE, TRUE, <<>>),      \* performance data with no teams: teams[0] raises
          Event(FALSE, FALSE, <<>>)}    \* neither performance nor boxscore

\* answers of the upstream to one request of the events scan
PageAnswers ==
    {[kind |-> "list", events |-> <<event>>] : event \in SampleEvents}
    \cup {[kind |-> k, events |-> <<>>] : k \in {"empty", "400", "status", "error"}}

\* events of a page the scan keeps: those with performance or boxscore data
RECURSIVE WithData(_)
WithData(events) ==
    IF events = <<>> THEN <<>>
    ELSE IF Head(events).has_data THEN <<Head(events)>> \o WithData(Tail(events))
         ELSE WithData(Tail(events))

RIdle ==
    /\ r_pc = "idle"
    /\ r_page = 1
    /\ r_stop = "none"
    /\ r_events = <<>>
    /\ r_done = 0
    /\ records = RecordsData

\* compute_single_game_records is entered: records = RecordsData(), events = [], page = 1
RInit ==
    /\ r_pc = "fetch"
    /\ r_page = 1
    /\ r_stop = "none"
    /\ r_events = <<>>
    /\ r_done = 0
    /\ records = RecordsData

\* one turn of `while page <= max_pages`: a list with items is filtered into events
\* and the next page is asked for; an empty or non-list body, a status 400, any other
\* status and an exception all break out of the loop and the scan goes on with the
\* events collected so far
RequestEventsPage(answer) ==
    /\ r_pc = "fetch"
    /\ r_page <= MaxEventPages
    /\ IF answer.kind = "list"
       THEN /\ r_events' = r_events \o WithData(answer.events)
            /\ r_page' = r_page + 1
            /\ r_pc' = IF r_page + 1 <= MaxEventPages THEN "fetch" ELSE "fold"
            /\ r_stop' = IF r_page + 1 <= MaxEventPages THEN "none" ELSE "max_pages"
       ELSE /\ r_events' = r_events
            /\ r_page' = r_page
            /\ r_pc' = "fold"
            /\ r_stop' = answer.kind
    /\ UNCHANGED <<r_done, records, mvars, lvars, cvars, tvars, dvars, hvars, gvars, yvars>>

\* one turn of `for event in events`
ProcessEvent ==
    /\ r_pc = "fold"
    /\ r_done < Len(r_events)
    /\ records' = FoldEvent(records, r_events[r_done + 1])
    /\ r_done' = r_done + 1
    /\ UNCHANGED <<r_pc, r_page, r_stop, r_events, mvars, lvars, cvars, tvars, dvars, hvars, gvars, yvars>>

\* `return records` after the last event
ReturnRecords ==
    /\ r_pc = "fold"
    /\ r_done = Len(r_events)
    /\ r_pc' = "done"
    /\ UNCHANGED <<r_page, r_stop, r_events, r_done, records, mvars, lvars, cvars, tvars, dvars, hvars, gvars, yvars>>

\* _try_update_max applied to a drawn incumbent and candidate
RecordHolders == {"A", "B"}
RecordGames == {"Team 1 vs Team 2", "Team 3 vs Team 1"}
RecordIds == {NoId, 7}

CandidateSet ==
    {RecordCandidate("points", value, holder, game, "2024-01-15", player_id) :
        value \in 0..MaxRecValue, holder \in RecordHolders, game \in RecordGames,
        player_id \in RecordIds}

TIdle ==
    /\ t_current = None
    /\ t_candidate = None
    /\ t_result = NotCalled

TInit ==
    /\ t_current \in {None} \cup {SingleGameRecord(c) : c \in CandidateSet}
    /\ t_candidate \in CandidateSet
    /\ t_result = NotCalled

TryUpdateMax ==
    /\ t_result = NotCalled
    /\ t_result' = _try_update_max(t_current, t_candidate)
    /\ UNCHANGED <<t_current, t_candidate, mvars, lvars, cvars, rvars, dvars, hvars, gvars, yvars>>

\* _check_double_triple_doubles applied to a drawn row
CategoryValues == {0, 9, 10, 11}

CategoryRows ==
    {[EventPlayerRow("A", v[1], v[3], 0, 0, 0, 0) EXCEPT !.rebounds = v[2], !.steals = v[4],
                                                         !.blocks = v[5]] :
        v \in [1..5 -> CategoryValues]}

DIdle ==
    /\ d_row = None
    /\ d_records = NotCalled

DInit ==
    /\ d_row \in CategoryRows
    /\ d_records = NotCalled

CheckDoubleTripleDoubles ==
    /\ d_records = NotCalled
    /\ d_records' = _check_double_triple_doubles(RecordsData, d_row)
    /\ UNCHANGED <<d_row, mvars, lvars, cvars, rvars, tvars, hvars, gvars, yvars>>

----------------------------------------------------------------------------
(* The HTTP client: core/http.py *)

MaxHttpPages == 2     \* pages one pagination asks for per behaviour
MaxCallers == 12      \* get_json calls alive at the same time (waiting or in flight)
MaxScans == 1         \* records scans running at the same time

\* stop_after_attempt(3) of the retry decorator of get_json
StopAfterAttempt == 3

\* asyncio.Semaphore(10)
RateLimit == 10

\* per_page of the modelled pagination
PerPage == 2

\* what one attempt of get_json can meet: a 200 answer whose JSON is a full page, a
\* shorter page, an empty list or an object; a status 400 or another error status
\* (raise_for_status raises ClientResponseError); a connection error or a timeout;
\* or an exception that is neither (a body that is not JSON)
Answers == {"full", "short", "empty", "object", "400", "status", "transient", "other"}

\* the JSON of a 200 answer to a request for a page: items are (page, position)
Json(answer, page) ==
    CASE answer = "full" -> [list |-> TRUE, items |-> [i \in 1..PerPage |-> <<page, i>>]]
      [] answer = "short" -> [list |-> TRUE, items |-> <<<<page, 1>>>>]
      [] answer = "empty" -> [list |-> TRUE, items |-> <<>>]
      [] answer = "object" -> [list |-> FALSE, items |-> <<<<page, 0>>>>]

\* the exception an attempt raises
Raised(answer) ==
    CASE answer = "400" -> [type |-> "ClientResponseError", status |-> 400]
      [] answer = "status" -> [type |-> "ClientResponseError", status |-> 500]
      [] answer = "transient" -> [type |-> "ClientError", status |-> 0]
      [] answer = "other" -> [type |-> "Exception", status |-> 0]

\* retry_if_exception_type((aiohttp.ClientError, asyncio.TimeoutError)):
\* ClientResponseError is a ClientError
Retried(exc) == exc.type \in {"ClientResponseError", "ClientError"}

\* what get_json raises once the decorator stops retrying: reraise is not set, so the
\* last exception is wrapped in tenacity.RetryError
RetryError == [type |-> "RetryError", status |-> 0]

\* mutant: the decorator stops one attempt later
GetJsonFourAttempts(attempt, answer, page) ==
    IF answer \in {"full", "short", "empty", "object"}
    THEN [does |-> "return", data |-> Json(answer, page), exc |-> RetryError]
    ELSE IF ~Retried(Raised(answer))
         THEN [does |-> "raise", data |-> Json("empty", page), exc |-> Raised(answer)]
         ELSE IF attempt < StopAfterAttempt + 1
              THEN [does |-> "retry", data |-> Json("empty", page), exc |-> Raised(answer)]
              ELSE [does |-> "raise", data |-> Json("empty", page), exc |-> RetryError]

\* get_json after its attempt number `attempt` met `answer`: it returns the JSON,
\* makes another attempt, or raises (data is meaningful for "return", exc otherwise)
get_json(attempt, answer, page) ==
    IF answer \in {"full", "short", "empty", "object"}
    THEN [does |-> "return", data |-> Json(answer, page), exc |-> RetryError]
    ELSE IF ~Retried(Raised(answer))
         THEN [does |-> "raise", data |-> Json("empty", page), exc |-> Raised(answer)]
         ELSE IF attempt < StopAfterAttempt
              THEN [does |-> "retry", data |-> Json("empty", page), exc |-> Raised(answer)]
              ELSE [does |-> "raise", data |-> Json("empty", page), exc |-> RetryError]

\* the except clauses of paginate: only a ClientResponseError with status 400 breaks
paginate_except(exc) ==
    IF exc.type = "ClientResponseError" /\ exc.status = 400 THEN "break" ELSE "raise"

HIdle ==
    /\ h_pc = "idle"
    /\ h_page = 1
    /\ h_attempt = 0
    /\ h_yielded = <<>>
    /\ h_log = <<>>
    /\ h_error = "none"

\* paginate is entered by a consumer that iterates to the end (fetch_events,
\* fetch_players_for_season), max_pages = None
HInit ==
    /\ h_pc = "run"
    /\ h_page = 1
    /\ h_attempt = 0
    /\ h_yielded = <<>>
    /\ h_log = <<>>
    /\ h_error = "none"

\* one request: an attempt of the get_json call for h_page, and, when the call
\* returns or raises, what the loop of paginate does with it
PageRequest(answer) ==
    /\ h_pc = "run"
    /\ h_page <= MaxHttpPages
    /\ LET attempt == h_attempt + 1
           r == get_json(attempt, answer, h_page)
       IN /\ h_log' = Append(h_log, [page |-> h_page, attempt |-> attempt, answer |-> answer])
          /\ CASE r.does = "retry" ->
                    /\ h_attempt' = attempt
                    /\ UNCHANGED <<h_pc, h_page, h_yielded, h_error>>
               [] r.does = "return" ->
                    /\ h_attempt' = 0
                    /\ h_error' = h_error
                    /\ IF r.data.items = <<>>                \* `if not data`
                       THEN UNCHANGED <<h_yielded, h_page>> /\ h_pc' = "done"
                       ELSE IF r.data.list
                            THEN /\ h_yielded' = h_yielded \o r.data.items
                                 /\ h_page' = h_page + 1
                                 /\ h_pc' = "run"
                            ELSE /\ h_yielded' = h_yielded \o r.data.items
                                 /\ h_page' = h_page
                                 /\ h_pc' = "done"
               [] r.does = "raise" ->
                    /\ h_attempt' = 0
                    /\ UNCHANGED <<h_page, h_yielded>>
                    /\ IF paginate_except(r.exc) = "break"
                       THEN h_pc' = "done" /\ h_error' = h_error
                       ELSE h_pc' = "raised" /\ h_error' = r.exc.type
    /\ UNCHANGED <<mvars, lvars, cvars, rvars, tvars, dvars, gvars, yvars>>

\* the concurrency gate
GIdle ==
    /\ g_waiting = 0
    /\ g_gated = 0
    /\ g_direct = 0

\* a caller enters get_json and reaches `async with self._rate_limit_semaphore`
EnterGetJson ==
    /\ g_waiting + g_gated < MaxCallers
    /\ g_waiting' = g_waiting + 1
    /\ UNCHANGED <<g_gated, g_direct, mvars, lvars, cvars, rvars, tvars, dvars, hvars, yvars>>

\* the semaphore admits a waiting caller, whose session.get goes out
AcquireAndSend ==
    /\ g_waiting > 0
    /\ g_gated < RateLimit
    /\ g_waiting' = g_waiting - 1
    /\ g_gated' = g_gated + 1
    /\ UNCHANGED <<g_direct, mvars, lvars, cvars, rvars, tvars, dvars, hvars, yvars>>

\* the request of a gated caller is answered or fails: the semaphore is released
LeaveGetJson ==
    /\ g_gated > 0
    /\ g_gated' = g_gated - 1
    /\ UNCHANGED <<g_waiting, g_direct, mvars, lvars, cvars, rvars, tvars, dvars, hvars, yvars>>

\* compute_single_game_records asks for a page with client.session.get, not get_json
ScanSend ==
    /\ g_direct < MaxScans
    /\ g_direct' = g_direct + 1
    /\ UNCHANGED <<g_waiting, g_gated, mvars, lvars, cvars, rvars, tvars, dvars, hvars, yvars>>

\* that request is answered or fails
ScanReceive ==
    /\ g_direct > 0
    /\ g_direct' = g_direct - 1
    /\ UNCHANGED <<g_waiting, g_gated, mvars, lvars, cvars, rvars, tvars, dvars, hvars, yvars>>

----------------------------------------------------------------------------
(* The state file: core/persistence.py *)

\* every variable group of the sections above
earlier == <<mvars, lvars, cvars, rvars, tvars, dvars, hvars, gvars>>

\* values of the three fields of BotState the model draws from
LeadersValues ==
    {EmptyLeaders,
     [EmptyLeaders EXCEPT !.points = <<[name |-> "ann", value |-> 2]>>],
     [EmptyLeaders EXCEPT !.points = <<[name |-> "Bob", value |-> 2], [name |-> "ann", value |-> 1]>>]}

TotalsValues ==
    {EmptyDict, "1" :> [s \in Stats |-> 0], "1" :> [s \in Stats |-> Thresholds(s)[1]]}

SentValues ==
    {EmptyDict, "Ann" :> ("points" :> <<Thresholds("points")[1]>>),
     "Ann" :> ("points" :> <<Thresholds("points")[1]>> @@ "steals" :> <<Thresholds("steals")[1]>>)}

BotState(leaders_data, totals, sent) ==
    [last_leaders |-> leaders_data, last_totals |-> totals, milestones_sent |-> sent]

\* BotState()
DefaultState == BotState(EmptyLeaders, EmptyDict, EmptyDict)

BotStates == {BotState(l, t, m) : l \in LeadersValues, t \in TotalsValues, m \in SentValues}

\* what can be at a path: nothing; a file that cannot be opened or read; text that
\* is not JSON (an empty or half-written file); JSON that is no state (a list, null,
\* a last_leaders that is no object); the JSON of a state, with or without fields
\* BotState does not know (save_state adds _metadata)
Content(kind, state, extra) == [kind |-> kind, state |-> state, extra |-> extra]
Absent == Content("absent", DefaultState, FALSE)
Partial == Content("partial", DefaultState, FALSE)

\* json.dump(state_dict) with state_dict["_metadata"] set
JsonOf(state) == Content("json", state, TRUE)

StatePath == "state.json"

\* mutant: the new state is written straight to the state file
TempPathIsStatePath(state_path) == state_path

\* self.state_path.with_suffix(".tmp")
temp_path(state_path) == IF state_path = "state.json" THEN "state.tmp" ELSE state_path

Paths == {StatePath, temp_path(StatePath)}

\* mutant: a file that cannot be read makes load_state raise
LoadStateRaises(content) ==
    IF content.kind = "json" THEN [raises |-> FALSE, state |-> content.state]
    ELSE IF content.kind = "unreadable" THEN [raises |-> TRUE, state |-> DefaultState]
    ELSE [raises |-> FALSE, state |-> DefaultState]

\* load_state: no file returns BotState(); open, json.load and BotState(**data) run
\* inside try / except Exception, which returns BotState(); unknown fields are ignored
load_state(content) ==
    IF content.kind = "absent" THEN [raises |-> FALSE, state |-> DefaultState]
    ELSE IF content.kind = "json" THEN [raises |-> FALSE, state |-> content.state]
    ELSE [raises |-> FALSE, state |-> DefaultState]

SIdle ==
    /\ f_files = [p \in Paths |-> Absent]
    /\ s_pc = "idle"
    /\ s_state = DefaultState
    /\ s_old = Absent
    /\ s_result = "none"

\* save_state(state) is called; the state file is absent or holds a saved state, a
\* temporary file may be left over from a save that failed
SInit ==
    /\ \E old \in {Absent} \cup {JsonOf(st) : st \in BotStates}, left \in {Absent, Partial} :
          /\ f_files = [p \in Paths |-> IF p = StatePath THEN old ELSE left]
          /\ s_old = old
    /\ s_state \in BotStates
    /\ s_pc = "call"
    /\ s_result = "none"

\* state.dict() and open(temp_path, "w"): the temporary file is created or truncated;
\* an exception ends the call with False
SaveOpenTemp(outcome) ==
    /\ s_pc = "call"
    /\ IF outcome = "ok"
       THEN /\ f_files' = [f_files EXCEPT ![temp_path(StatePath)] = Partial]
            /\ s_pc' = "temp_open"
            /\ s_result' = s_result
       ELSE /\ s_pc' = "returned"
            /\ s_result' = "False"
            /\ f_files' = f_files
    /\ UNCHANGED <<s_state, s_old, earlier, ldvars, bvars, nvars, evars, kvars>>

\* json.dump into the temporary file: complete, or cut short by an exception
SaveDump(outcome) ==
    /\ s_pc = "temp_open"
    /\ IF outcome = "ok"
       THEN /\ f_files' = [f_files EXCEPT ![temp_path(StatePath)] = JsonOf(s_state)]
            /\ s_pc' = "dumped"
            /\ s_result' = s_result
       ELSE /\ s_pc' = "returned"
            /\ s_result' = "False"
            /\ f_files' = f_files
    /\ UNCHANGED <<s_state, s_old, earlier, ldvars, bvars, nvars, evars, kvars>>

\* temp_path.replace(self.state_path): the rename happens as a whole or not at all
SaveReplace(outcome) ==
    /\ s_pc = "dumped"
    /\ IF outcome = "ok"
       THEN /\ f_files' = [p \in Paths |->
                              IF p = StatePath THEN f_files[temp_path(StatePath)] ELSE Absent]
            /\ s_result' = "True"
       ELSE /\ f_files' = f_files
            /\ s_result' = "False"
    /\ s_pc' = "returned"
    /\ UNCHANGED <<s_state, s_old, earlier, ldvars, bvars, nvars, evars, kvars>>

\* the process dies between two steps of save_state, or inside json.dump
SaveCrash ==
    /\ s_pc \in {"call", "temp_open", "dumped"}
    /\ s_pc' = "crashed"
    /\ UNCHANGED <<f_files, s_state, s_old, s_result, earlier, ldvars, bvars, nvars, evars, kvars>>

\* what load_state can find at state_path
Contents ==
    {Absent, Partial, Content("unreadable", DefaultState, FALSE),
     Content("other", DefaultState, FALSE)}
    \cup {Content("json", st, extra) : st \in BotStates, extra \in BOOLEAN}

LdIdle ==
    /\ ld_content = Absent
    /\ ld_result = NotCalled

LdInit ==
    /\ ld_content \in Contents
    /\ ld_result = NotCalled

LoadState ==
    /\ ld_result = NotCalled
    /\ ld_result' = load_state(ld_content)
    /\ UNCHANGED <<ld_content, earlier, svars, bvars, nvars, evars, kvars>>

----------------------------------------------------------------------------
(* The two monitors of bot.py on the shared state file *)

MaxCycles == 3        \* poll cycles started per behaviour, both monitors together

\* save_state as one call: the file holds the new state if it succeeds and is
\* unchanged if it fails
save_state(files, state, ok) ==
    IF ok THEN [files EXCEPT ![StatePath] = JsonOf(state)] ELSE files

\* mutant: update_leaders saves a fresh BotState that holds the leaders only
UpdateLeadersFresh(files, leaders_data, ok) ==
    save_state(files, [DefaultState EXCEPT !.last_leaders = leaders_data], ok)

\* StateManager.update_leaders: load, set last_leaders, save, without an await
update_leaders(files, leaders_data, ok) ==
    LET state == load_state(files[StatePath]).state
    IN save_state(files, [state EXCEPT !.last_leaders = leaders_data], ok)

\* StateManager.update_milestones: load, set last_totals and milestones_sent, save
update_milestones(files, totals, sent, ok) ==
    LET state == load_state(files[StatePath]).state
    IN save_state(files, [state EXCEPT !.last_totals = totals, !.milestones_sent = sent], ok)

\* what scan_and_detect_crossings hands back when it has notifications
ScanResults ==
    {<<t, m>> \in TotalsValues \X SentValues : t # EmptyDict /\ m # EmptyDict}

\* the statistics whose leaders differ: `if current_list != last_list`
changes(current_leaders, last_leaders) ==
    {s \in LStats : current_leaders[s] # last_leaders[s]}

NoWrite == [written |-> FALSE, value |-> DefaultState]
Written(value) == [written |-> TRUE, value |-> value]

BIdle ==
    /\ lm_pc = "idle"
    /\ lm_fetch = "none"
    /\ lm_current = EmptyLeaders
    /\ lm_sent = FALSE
    /\ lm_saved = FALSE
    /\ mm_pc = "idle"
    /\ mm_updated = <<EmptyDict, EmptyDict>>
    /\ w_leaders = NoWrite
    /\ w_milestones = NoWrite
    /\ b_cycles = 0

\* the bot starts with no state file or with one left by an earlier run
BInit ==
    /\ BIdle
    /\ f_files \in {[p \in Paths |-> IF p = StatePath THEN old ELSE Absent] :
                      old \in {Absent} \cup {JsonOf(BotState(l, EmptyDict, EmptyDict)) :
                                                l \in LeadersValues}}
    /\ s_pc = "idle"
    /\ s_state = DefaultState
    /\ s_old = Absent
    /\ s_result = "none"

\* leaders_monitor up to its announcement: top_n_season_leaders returns LeadersData()
\* when its fetch fails, and a LeadersData is never falsy, so `if not current_leaders`
\* does not return; the lists are compared with last_leaders of the state file
LeadersMonitorCycle(outcome, fetched) ==
    /\ lm_pc = "idle"
    /\ b_cycles < MaxCycles
    /\ LET current_leaders == IF outcome = "error" THEN EmptyLeaders ELSE fetched
           last_leaders == load_state(f_files[StatePath]).state.last_leaders
       IN /\ lm_current' = current_leaders
          /\ lm_pc' = IF changes(current_leaders, last_leaders) # {} THEN "sending" ELSE "idle"
    /\ lm_fetch' = outcome
    /\ lm_sent' = FALSE
    /\ lm_saved' = FALSE
    /\ b_cycles' = b_cycles + 1
    /\ UNCHANGED <<mm_pc, mm_updated, w_leaders, w_milestones, svars, earlier, ldvars, nvars, evars, kvars>>

\* announce_channel.send returns or raises; after it returned, update_leaders_in_state
LeadersMonitorSend(sendOk, saveOk) ==
    /\ lm_pc = "sending"
    /\ lm_pc' = "idle"
    /\ lm_sent' = sendOk
    /\ lm_saved' = (sendOk /\ saveOk)
    /\ f_files' = IF sendOk THEN update_leaders(f_files, lm_current, saveOk) ELSE f_files
    /\ w_leaders' = IF sendOk /\ saveOk THEN Written(lm_current) ELSE w_leaders
    /\ UNCHANGED <<lm_fetch, lm_current, mm_pc, mm_updated, w_milestones, b_cycles,
                   s_pc, s_state, s_old, s_result, earlier, ldvars, nvars, evars, kvars>>

\* milestones_monitor reads the milestone state and awaits scan_and_detect_crossings
MilestonesMonitorStart ==
    /\ mm_pc = "idle"
    /\ b_cycles < MaxCycles
    /\ mm_pc' = "scanning"
    /\ b_cycles' = b_cycles + 1
    /\ UNCHANGED <<lm_pc, lm_fetch, lm_current, lm_sent, lm_saved, mm_updated, w_leaders,
                   w_milestones, svars, earlier, ldvars, nvars, evars, kvars>>

\* the scan returns, with notifications and the updated maps or without
MilestonesMonitorScan(found, updated) ==
    /\ mm_pc = "scanning"
    /\ mm_pc' = IF found THEN "sending" ELSE "idle"
    /\ mm_updated' = IF found THEN updated ELSE mm_updated
    /\ UNCHANGED <<lm_pc, lm_fetch, lm_current, lm_sent, lm_saved, w_leaders, w_milestones,
                   b_cycles, svars, earlier, ldvars, nvars, evars, kvars>>

\* announce_channel.send returns or raises; after it returned, update_milestones_in_state
MilestonesMonitorSend(sendOk, saveOk) ==
    /\ mm_pc = "sending"
    /\ mm_pc' = "idle"
    /\ f_files' = IF sendOk
                  THEN update_milestones(f_files, mm_updated[1], mm_updated[2], saveOk)
                  ELSE f_files
    /\ w_milestones' = IF sendOk /\ saveOk
                       THEN Written([last_totals |-> mm_updated[1],
                                     milestones_sent |-> mm_updated[2]])
                       ELSE w_milestones
    /\ UNCHANGED <<lm_pc, lm_fetch, lm_current, lm_sent, lm_saved, mm_updated, w_leaders,
                   b_cycles, s_pc, s_state, s_old, s_result, earlier, ldvars, nvars, evars, kvars>>

----------------------------------------------------------------------------
(* The name caches: core/names.py *)

MaxNameCalls == 4     \* calls of get_player_name / get_team_name per behaviour
MaxTasks == 2         \* tasks of the event loop that resolve names

Tasks == 1 .. MaxTasks
NameKinds == {"player", "team"}
NameIds == {1, 2}
NameKeys == NameKinds \X NameIds

\* str(id) inside the f-strings
IdText(id) == IF id = 1 THEN "1" ELSE "2"

\* f"Player {player_id}", f"Team {team_id}"
FallbackName(kind, id) == (IF kind = "player" THEN "Player " ELSE "Team ") \o IdText(id)

\* title.rendered of the upstream object
RenderedName(kind, id) == (IF kind = "player" THEN "Ann" ELSE "Owls") \o IdText(id)

\* a lookup ends with a title, with an object that has no title, or with an exception
LookupOutcomes == {"title", "untitled", "error"}

NoLookup == [kind |-> "none", id |-> 0]
NameCall(kind, id) == [kind |-> kind, id |-> id]
NoReturn == [key |-> <<"none", 0>>, name |-> "", hit |-> FALSE]

\* mutant: the fallback of a failed lookup is returned and not cached
GetNameNoFallbackCache(cache, kind, id, outcome) ==
    IF outcome = "title"
    THEN [name |-> RenderedName(kind, id), cache |-> Put(cache, <<kind, id>>, RenderedName(kind, id))]
    ELSE IF outcome = "untitled"
    THEN [name |-> FallbackName(kind, id), cache |-> Put(cache, <<kind, id>>, FallbackName(kind, id))]
    ELSE [name |-> FallbackName(kind, id), cache |-> cache]

\* get_player_name / get_team_name after the await: the try branch caches
\* title.rendered or its default, the except branch caches the fallback
get_name(cache, kind, id, outcome) ==
    LET name == IF outcome = "title" THEN RenderedName(kind, id) ELSE FallbackName(kind, id)
    IN [name |-> name, cache |-> Put(cache, <<kind, id>>, name)]

NIdle ==
    /\ n_cache = EmptyDict
    /\ n_pending = [t \in Tasks |-> NoLookup]
    /\ n_lookups = [key \in NameKeys |-> 0]
    /\ n_resolved = EmptyDict
    /\ n_last = NoReturn
    /\ n_calls = 0

\* a task calls get_player_name or get_team_name: a cached id returns at once,
\* any other id starts client.get_json and the task waits
GetNameCall(t, kind, id) ==
    /\ n_pending[t] = NoLookup
    /\ n_calls < MaxNameCalls
    /\ n_calls' = n_calls + 1
    /\ IF <<kind, id>> \in DOMAIN n_cache
       THEN /\ n_last' = [key |-> <<kind, id>>, name |-> n_cache[<<kind, id>>], hit |-> TRUE]
            /\ UNCHANGED <<n_pending, n_lookups>>
       ELSE /\ n_pending' = [n_pending EXCEPT ![t] = NameCall(kind, id)]
            /\ n_lookups' = [n_lookups EXCEPT ![<<kind, id>>] = @ + 1]
            /\ n_last' = n_last
    /\ UNCHANGED <<n_cache, n_resolved, earlier, svars, ldvars, bvars, evars, kvars>>

\* the same call made while no other lookup is under way
GetNameSequential(kind, id) ==
    /\ \A t \in Tasks : n_pending[t] = NoLookup
    /\ GetNameCall(1, kind, id)

\* client.get_json returns or raises; the task caches and returns the name
GetNameAnswer(t, outcome) ==
    /\ n_pending[t] # NoLookup
    /\ LET kind == n_pending[t].kind
           id == n_pending[t].id
           r == get_name(n_cache, kind, id, outcome)
       IN /\ n_cache' = r.cache
          /\ n_last' = [key |-> <<kind, id>>, name |-> r.name, hit |-> FALSE]
          /\ n_resolved' = IF outcome = "title"
                           THEN Put(n_resolved, <<kind, id>>, r.name) ELSE n_resolved
    /\ n_pending' = [n_pending EXCEPT ![t] = NoLookup]
    /\ UNCHANGED <<n_lookups, n_calls, earlier, svars, ldvars, bvars, evars, kvars>>

\* clear_name_cache()
ClearNameCache ==
    /\ n_cache' = EmptyDict
    /\ n_lookups' = [key \in NameKeys |-> 0]
    /\ n_resolved' = EmptyDict
    /\ n_last' = NoReturn
    /\ UNCHANGED <<n_pending, n_calls, earlier, svars, ldvars, bvars, evars, kvars>>

\* clear_name_cache() called while no lookup is under way
ClearNameCacheSequential ==
    /\ \A t \in Tasks : n_pending[t] = NoLookup
    /\ ClearNameCache

----------------------------------------------------------------------------
(* Rows of one event: _extract_rows_from_event and _create_player_row *)

MaxEntries == 2       \* player entries of one team in the performance map

\* Python None as the player_id, team_id or opp_team_id of a row built from an event
MissingId == -1

\* values of one statistic in the payload: missing or empty, "0", a number, no number
StatTexts == {"", "0", "8", "x"}

\* _safe_extract_float: None and "" give the default, a string that is no number
\* raises ValueError inside the try and gives the default
_safe_extract_float(text) == IF text = "8" THEN 8 ELSE 0

\* the statistics of one player in the payload, by their event API keys
StatLines ==
    {[pts |-> "8", fga |-> "8", threepa |-> "8"],
     [pts |-> "", fga |-> "", threepa |-> ""],
     [pts |-> "x", fga |-> "0", threepa |-> "8"]}

TeamKeys == {"0", "1", "x"}
PlayerKeys == {"0", "7", "x"}

\* int(player_id) and int(team_id) of the keys above that are numbers
KeyInt(key) == IF key = "7" THEN 7 ELSE IF key = "1" THEN 1 ELSE 0
IsDigit(key) == key \in {"0", "1", "7"}

\* str(teams[0])
TeamText(team_id) == IF team_id = 1 THEN "1" ELSE "2"

PerformanceEntries == {[id |-> id, stats |-> stats] : id \in PlayerKeys, stats \in StatLines}

SeqsUpTo(S, n) == UNION {[1 .. k -> S] : k \in 0 .. n}

\* event["performance"]: absent, or one team key with its player entries
NoPerformance == [team |-> "", players |-> <<>>]
PerformanceValues ==
    {NoPerformance}
    \cup {[team |-> team, players |-> players] :
            team \in TeamKeys, players \in SeqsUpTo(PerformanceEntries, MaxEntries) \ {<<>>}}

\* event["boxscore"]: absent, or a list of at most one row with a team field; the id
\* of a row is "" when the row has none
BoxscoreRows ==
    {[id |-> id, team |-> team, stats |-> stats] :
        id \in {"0", "7", ""}, team \in {"Team 1", "Team 9"}, stats \in StatLines}
BoxscoreValues == {<<>>} \cup {<<row>> : row \in BoxscoreRows}

\* event["teams"]: missing or empty, or the ids of the two teams
TeamsValues == {<<>>, <<1, 2>>}

EventPayloads ==
    {[teams |-> teams, performance |-> performance, boxscore |-> boxscore] :
        teams \in TeamsValues, performance \in PerformanceValues, boxscore \in BoxscoreValues}

\* stats[canon_name] = _safe_extract_float(row, event_key) over EVENT_KEY_MAP
CanonicalStats(stats) ==
    [points |-> _safe_extract_float(stats.pts),
     fga |-> _safe_extract_float(stats.fga),
     threes_att |-> _safe_extract_float(stats.threepa)]

\* _create_player_row: EventPlayerRow(..., **stats) keeps the keys that are fields
\* of EventPlayerRow; threes_att is none, so threepa keeps its default 0.0
_create_player_row(row, side) ==
    [player_id |-> row.player_id, team_id |-> row.team_id, opp_team_id |-> row.opp_team_id,
     side |-> side, points |-> CanonicalStats(row.stats).points,
     fga |-> CanonicalStats(row.stats).fga,
     threepa |-> 0]

Returns(rows) == [raises |-> FALSE, rows |-> rows]
RaisesError == [raises |-> TRUE, rows |-> <<>>]

\* any(player_stats.get(stat) for stat in [...]): a non-empty string is truthy
AnyStat(stats) == stats.pts # "" \/ stats.fga # "" \/ stats.threepa # ""

\* one entry of the performance map: skipped, or a row, or an exception out of
\* int(player_id), int(team_id) or teams[0]
PerformanceEntry(teams, team_id, entry) ==
    IF entry.id = "0" \/ ~AnyStat(entry.stats) THEN Returns(<<>>)
    ELSE IF ~IsDigit(entry.id) \/ ~IsDigit(team_id) \/ Len(teams) = 0 THEN RaisesError
    ELSE LET home == team_id = TeamText(teams[1])
         IN Returns(<<_create_player_row(
                        [player_id |-> KeyInt(entry.id), team_id |-> KeyInt(team_id),
                         opp_team_id |-> IF home THEN teams[2] ELSE teams[1],
                         stats |-> entry.stats],
                        IF home THEN "home" ELSE "away")>>)

RECURSIVE PerformanceRows(_, _, _)
PerformanceRows(teams, team_id, players) ==
    IF players = <<>> THEN Returns(<<>>)
    ELSE LET first == PerformanceEntry(teams, team_id, Head(players))
             rest == PerformanceRows(teams, team_id, Tail(players))
         IN IF first.raises \/ rest.raises THEN RaisesError
            ELSE Returns(first.rows \o rest.rows)

\* team_a as the function computes it: f"Team {teams[0]}" or the default "Team A"
TeamA(teams) == IF Len(teams) >= 2 THEN "Team " \o TeamText(teams[1]) ELSE "Team A"

\* one row of the flat box-score list: nothing is skipped
BoxscoreRow(teams, row) ==
    LET side == IF row.team = TeamA(teams) THEN "home" ELSE "away"
        first == IF Len(teams) > 0 THEN teams[1] ELSE MissingId
        second == IF Len(teams) > 1 THEN teams[2] ELSE MissingId
    IN _create_player_row(
           [player_id |-> IF row.id # "" THEN KeyInt(row.id) ELSE MissingId,
            team_id |-> IF side = "home" THEN first ELSE second,
            opp_team_id |-> IF side = "home" THEN second ELSE first,
            stats |-> row.stats],
           side)

\* _extract_rows_from_event: the performance map first, the box score only when
\* the performance map gave no row
_extract_rows_from_event(event) ==
    LET performance == IF event.performance.team = "0" THEN Returns(<<>>)
                       ELSE PerformanceRows(event.teams, event.performance.team,
                                            event.performance.players)
    IN IF performance.raises THEN RaisesError
       ELSE IF performance.rows # <<>> THEN performance
       ELSE Returns([i \in 1 .. Len(event.boxscore) |->
                        BoxscoreRow(event.teams, event.boxscore[i])])

EIdle ==
    /\ e_event = [teams |-> <<>>, performance |-> NoPerformance, boxscore |-> <<>>]
    /\ e_result = NotCalled

EInit ==
    /\ e_event \in EventPayloads
    /\ e_result = NotCalled

ExtractRows ==
    /\ e_result = NotCalled
    /\ e_result' = _extract_rows_from_event(e_event)
    /\ UNCHANGED <<e_event, earlier, svars, ldvars, bvars, nvars, kvars>>

----------------------------------------------------------------------------
(* The record monitor: core/record_monitor.py *)

MaxMonitorCycles == 3     \* passes of the loop of monitor_records per behaviour

\* the record types check_for_new_records walks, those the model keeps
MonitoredTypes == {"points", "assists"}

\* a SingleGameRecord, by its value
MonitoredRecord(value) == [value |-> value]

\* the RecordsData a scan can return; RecordsData() holds None everywhere and is
\* what compute_single_game_records returns when it fetched no event
MonitoredRecords ==
    [MonitoredTypes -> {None} \cup {MonitoredRecord(v) : v \in 1 .. MaxRecValue}]

\* _compare_records
_compare_records(old_record, new_record) ==
    IF old_record = None /\ new_record # None THEN TRUE
    ELSE IF old_record # None /\ new_record # None THEN new_record.value > old_record.value
    ELSE FALSE

\* check_for_new_records: nothing without previous records (None; a RecordsData
\* is never falsy), else the record types whose record compares as new
check_for_new_records(previous, current_records) ==
    IF previous = None THEN {}
    ELSE {t \in MonitoredTypes : _compare_records(previous[t], current_records[t])}

\* the value of a remembered record, 0 when there is none
RememberedValue(remembered, t) ==
    IF remembered = None THEN 0 ELSE IF remembered[t] = None THEN 0 ELSE remembered[t].value

KIdle ==
    /\ k_pc = "idle"
    /\ k_file = None
    /\ previous_records = None
    /\ k_best = [t \in MonitoredTypes |-> 0]
    /\ k_announced = {}
    /\ k_cycles = 0

\* RecordMonitor.__init__: previous_records is None; data/previous_records.json is
\* absent or holds the records an earlier run saved
KInit ==
    /\ k_pc = "start"
    /\ k_file \in {None} \cup MonitoredRecords
    /\ previous_records = None
    /\ k_best = [t \in MonitoredTypes |-> 0]
    /\ k_announced = {}
    /\ k_cycles = 0

\* monitor_records before its loop: load_previous_records returns the file's
\* records, or None when the file is absent or cannot be read
LoadPreviousRecords(readable) ==
    /\ k_pc = "start"
    /\ k_pc' = "loop"
    /\ previous_records' = IF readable THEN k_file ELSE None
    /\ UNCHANGED <<k_file, k_best, k_announced, k_cycles,
                   earlier, svars, ldvars, bvars, nvars, evars>>

\* one pass of the loop: the scan and the name resolution return records (always
\* truthy), or raise and the pass ends in the except branch; the new records are
\* announced unless the channel is missing or the send raises; the records are
\* saved unless the write raises; previous_records becomes the current records
MonitorRecordsCycle(outcome, current_records, sendOk, saveOk) ==
    /\ k_pc = "loop"
    /\ k_cycles < MaxMonitorCycles
    /\ k_cycles' = k_cycles + 1
    /\ IF outcome = "raise"
       THEN /\ k_announced' = {}
            /\ UNCHANGED <<k_file, previous_records, k_best>>
       ELSE /\ k_announced' = IF sendOk
                              THEN check_for_new_records(previous_records, current_records)
                              ELSE {}
            /\ k_file' = IF saveOk THEN current_records ELSE k_file
            /\ previous_records' = current_records
            /\ k_best' = [t \in MonitoredTypes |->
                            IF RememberedValue(previous_records, t) > k_best[t]
                            THEN RememberedValue(previous_records, t) ELSE k_best[t]]
    /\ UNCHANGED <<k_pc, earlier, svars, ldvars, bvars, nvars, evars>>

\* the state file, the monitors, the name caches, the row extraction and the
\* record monitor at rest
YIdle == SIdle /\ LdIdle /\ BIdle /\ NIdle /\ EIdle /\ KIdle

\* every subsystem added after the milestone and leaders models, at rest
XIdle == RIdle /\ TIdle /\ DIdle /\ HIdle /\ GIdle /\ YIdle

----------------------------------------------------------------------------
(* The upstream API between two polls *)

\* totals the upstream can serve at the next poll: unchanged, one statistic of one
\* listed player changed (raised, lowered or reset), or one player listed / unlisted
NextUpstream(up) ==
    {up}
    \cup UNION {{[up EXCEPT ![p].tot[s] = v] : v \in Values(s)} :
                  p \in {q \in Players : up[q].present}, s \in Stats}
    \cup {[up EXCEPT ![p] = [present |-> ~up[p].present, tot |-> ZeroTotals]] : p \in Players}

\* how often (p, s, t) is notified by a pass over current_totals
NotifiedNow(current_totals, lt, ms, p, s, t) ==
    Cardinality({i \in DOMAIN current_totals :
        /\ current_totals[i].player_id = p
        /\ t \in Range(new_thresholds(current_totals[i], s, lt, ms))})

----------------------------------------------------------------------------
(* Milestone passes chained as scan_and_detect_crossings returns them *)

MInit ==
    /\ upstream = [p \in Players |-> [present |-> TRUE, tot |-> ZeroTotals]]
    /\ fetch = "none"
    /\ last_totals = EmptyDict
    /\ milestones_sent = EmptyDict
    /\ notifications = <<>>
    /\ notified = [tr \in Triples |-> 0]
    /\ passes = 0
    /\ io = "none"

\* one pass: the caller hands in the (last_totals, milestones_sent) the previous
\* pass returned and keeps what this pass returns
ScanPass(outcome, up) ==
    /\ passes < MaxPasses
    /\ LET r == scan_and_detect_crossings(outcome, up, last_totals, milestones_sent)
           current_totals == get_current_season_totals(outcome, up)
       IN /\ upstream' = up
          /\ fetch' = outcome
          /\ notifications' = r.notifications
          /\ last_totals' = r.last_totals
          /\ milestones_sent' = r.milestones_sent
          /\ notified' = [tr \in Triples |->
                 notified[tr] + NotifiedNow(current_totals, last_totals,
                                            milestones_sent, tr[1], tr[2], tr[3])]
          /\ passes' = passes + 1
          /\ UNCHANGED <<io, lvars, cvars, xvars>>

\* bot.py milestones_monitor, one poll cycle with http_client and announce_channel
\* set: last_totals and milestones_sent are the contents of the state file; they are
\* loaded, scanned against, and written back only inside `if notifications:`, after
\* the announcement was sent; an exception of send skips the update, a failed
\* save_state leaves the file as it was
MilestonesMonitor(outcome, up, sendOk, saveOk) ==
    /\ passes < MaxPasses
    /\ LET r == scan_and_detect_crossings(outcome, up, last_totals, milestones_sent)
           current_totals == get_current_season_totals(outcome, up)
           persist == r.notifications # <<>> /\ sendOk /\ saveOk
       IN /\ upstream' = up
          /\ fetch' = outcome
          /\ notifications' = r.notifications
          /\ last_totals' = IF persist THEN r.last_totals ELSE last_totals
          /\ milestones_sent' = IF persist THEN r.milestones_sent ELSE milestones_sent
          /\ notified' = [tr \in Triples |->
                 notified[tr] + NotifiedNow(current_totals, last_totals,
                                            milestones_sent, tr[1], tr[2], tr[3])]
          /\ io' = IF r.notifications = <<>> THEN "ok"
                   ELSE IF ~sendOk THEN "send_failed"
                   ELSE IF ~saveOk THEN "save_failed" ELSE "ok"
          /\ passes' = passes + 1
          /\ UNCHANGED <<lvars, cvars, xvars>>

Init == MInit /\ LIdle /\ CIdle /\ XIdle

Next == \E outcome \in {"ok", "error"}, up \in NextUpstream(upstream) : ScanPass(outcome, up)

Spec == Init /\ [][Next]_vars

MonitorNext ==
    \E outcome \in {"ok", "error"}, up \in NextUpstream(upstream), sendOk \in BOOLEAN, saveOk \in BOOLEAN :
        MilestonesMonitor(outcome, up, sendOk, saveOk)

SpecMonitor == Init /\ [][MonitorNext]_vars

LeadersInit == MInit /\ LInit /\ CIdle /\ XIdle

LeadersNext ==
    \/ \E failed \in BOOLEAN, n \in 0..MaxN : SeasonLeaders(failed, n)
    \/ \E failedSet \in SUBSET Seasons, n \in 0..MaxN : CareerLeaders(failedSet, n)

SpecLeaders == LeadersInit /\ [][LeadersNext]_vars

ChangedInit == MInit /\ LIdle /\ CInit /\ XIdle

ChangedNext == LeadersChanged

SpecChanged == ChangedInit /\ [][ChangedNext]_vars

IdleFirst == MInit /\ LIdle /\ CIdle

RecordsInit == IdleFirst /\ RInit /\ TIdle /\ DIdle /\ HIdle /\ GIdle /\ YIdle

RecordsNext ==
    \/ \E answer \in PageAnswers : RequestEventsPage(answer)
    \/ ProcessEvent
    \/ ReturnRecords

SpecRecords == RecordsInit /\ [][RecordsNext]_vars

TryUpdateInit == IdleFirst /\ RIdle /\ TInit /\ DIdle /\ HIdle /\ GIdle /\ YIdle

TryUpdateNext == TryUpdateMax

SpecTryUpdate == TryUpdateInit /\ [][TryUpdateNext]_vars

DoublesInit == IdleFirst /\ RIdle /\ TIdle /\ DInit /\ HIdle /\ GIdle /\ YIdle

DoublesNext == CheckDoubleTripleDoubles

SpecDoubles == DoublesInit /\ [][DoublesNext]_vars

PaginateInit == IdleFirst /\ RIdle /\ TIdle /\ DIdle /\ HInit /\ GIdle /\ YIdle

PaginateNext == \E answer \in Answers : PageRequest(answer)

SpecPaginate == PaginateInit /\ [][PaginateNext]_vars

GateInit == IdleFirst /\ RIdle /\ TIdle /\ DIdle /\ HIdle /\ GIdle /\ YIdle

GateNext ==
    \/ EnterGetJson
    \/ AcquireAndSend
    \/ LeaveGetJson
    \/ ScanSend
    \/ ScanReceive

SpecGate == GateInit /\ [][GateNext]_vars

\* the milestone, leaders, records, pagination and gate models at rest
EarlierIdle == IdleFirst /\ RIdle /\ TIdle /\ DIdle /\ HIdle /\ GIdle

\* one call of save_state, which a crash of the process may cut short
SaveInit == EarlierIdle /\ SInit /\ LdIdle /\ BIdle /\ NIdle /\ EIdle /\ KIdle

SaveNext ==
    \/ \E outcome \in {"ok", "error"} : SaveOpenTemp(outcome)
    \/ \E outcome \in {"ok", "error"} : SaveDump(outcome)
    \/ \E outcome \in {"ok", "error"} : SaveReplace(outcome)
    \/ SaveCrash

SpecSave == SaveInit /\ [][SaveNext]_vars

\* one call of load_state on whatever is at state_path
LoadInit == EarlierIdle /\ SIdle /\ LdInit /\ BIdle /\ NIdle /\ EIdle /\ KIdle

LoadNext == LoadState

SpecLoad == LoadInit /\ [][LoadNext]_vars

\* leaders_monitor and milestones_monitor, interleaved at their awaits
MonitorsInit == EarlierIdle /\ BInit /\ LdIdle /\ NIdle /\ EIdle /\ KIdle

MonitorsNext ==
    \/ \E outcome \in {"ok", "error"}, fetched \in LeadersValues :
          LeadersMonitorCycle(outcome, fetched)
    \/ \E sendOk \in BOOLEAN, saveOk \in BOOLEAN : LeadersMonitorSend(sendOk, saveOk)
    \/ MilestonesMonitorStart
    \/ \E found \in BOOLEAN, updated \in ScanResults : MilestonesMonitorScan(found, updated)
    \/ \E sendOk \in BOOLEAN, saveOk \in BOOLEAN : MilestonesMonitorSend(sendOk, saveOk)

SpecMonitors == MonitorsInit /\ [][MonitorsNext]_vars

\* name lookups made one after the other
NamesInit == EarlierIdle /\ SIdle /\ LdIdle /\ BIdle /\ NIdle /\ EIdle /\ KIdle

NamesSeqNext ==
    \/ \E kind \in NameKinds, id \in NameIds : GetNameSequential(kind, id)
    \/ \E t \in Tasks, outcome \in LookupOutcomes : GetNameAnswer(t, outcome)
    \/ ClearNameCacheSequential

SpecNamesSeq == NamesInit /\ [][NamesSeqNext]_vars

\* name lookups of several tasks, interleaved at their awaits
NamesNext ==
    \/ \E t \in Tasks, kind \in NameKinds, id \in NameIds : GetNameCall(t, kind, id)
    \/ \E t \in Tasks, outcome \in LookupOutcomes : GetNameAnswer(t, outcome)
    \/ ClearNameCache

SpecNames == NamesInit /\ [][NamesNext]_vars

\* one call of _extract_rows_from_event
ExtractInit == EarlierIdle /\ SIdle /\ LdIdle /\ BIdle /\ NIdle /\ EInit /\ KIdle

ExtractNext == ExtractRows

SpecExtract == ExtractInit /\ [][ExtractNext]_vars

\* the loop of monitor_records
RecordMonitorInit == EarlierIdle /\ SIdle /\ LdIdle /\ BIdle /\ NIdle /\ EIdle /\ KInit

RecordMonitorNext ==
    \/ \E readable \in BOOLEAN : LoadPreviousRecords(readable)
    \/ \E outcome \in {"ok", "raise"}, current_records \in MonitoredRecords,
          sendOk \in BOOLEAN, saveOk \in BOOLEAN :
          MonitorRecordsCycle(outcome, current_records, sendOk, saveOk)

SpecRecordMonitor == RecordMonitorInit /\ [][RecordMonitorNext]_vars

----------------------------------------------------------------------------
(* Claims about milestone detection *)

\* the player ids listed in the totals the last poll fetched
Listed == {p \in Players : upstream[p].present}

\* whether threshold t is in the announced list found under key k and statistic s
Announced(ms, k, s, t) == t \in Range(Get(Get(ms, k, EmptyDict), s, <<>>))

\* a pass whose fetch succeeded and listed at least one player
FetchedOk == fetch = "ok" /\ Listed # {}

\* C1: over chained passes a (player, statistic, threshold) triple is notified at
\* most once, also when the total falls below the threshold and rises past it again
C1_NotifiedAtMostOnce == \A tr \in Triples : notified[tr] <= 1

\* C2: a second pass over the same current totals, fed the totals and announced map
\* the first pass returned, emits zero notifications
C2_SecondPassSilent ==
    FetchedOk =>
        scan_and_detect_crossings("ok", upstream, last_totals, milestones_sent).notifications = <<>>

C2_Witness ==
    /\ FetchedOk
    /\ Len(notifications) >= 2
    /\ scan_and_detect_crossings("ok", upstream, last_totals, milestones_sent).notifications = <<>>

\* C3: after update_milestone_state the announced map holds t under the key of
\* player id p and statistic s iff t was there in the input map or (p, s, t) was
\* notified in this pass
C3_AnnouncedUnderPlayerId ==
    [][(passes' = passes + 1 /\ fetch' = "ok") =>
         \A tr \in Triples :
            Announced(milestones_sent', IdStr(tr[1]), tr[2], tr[3])
              <=> \/ Announced(milestones_sent, IdStr(tr[1]), tr[2], tr[3])
                  \/ notified'[tr] > notified[tr]]_vars

\* C5: detect_milestone_crossings emits exactly one notification for each listed
\* (player, statistic, threshold) with previous < threshold <= current (previous 0
\* when nothing is stored) that is not in the announced list stored under the
\* player id, and no other notification
Qualifies(p, s, t, up, lt, ms) ==
    /\ up[p].present
    /\ Get(Get(lt, IdStr(p), EmptyDict), s, 0) < t
    /\ t <= up[p].tot[s]
    /\ ~Announced(ms, IdStr(p), s, t)

CountFor(notifs, p, s, t) ==
    Cardinality({i \in DOMAIN notifs :
        notifs[i].player = PlayerName(p) /\ notifs[i].stat = s /\ notifs[i].threshold = t})

C5_ExactlyTheCrossings ==
    [][(passes' = passes + 1 /\ fetch' = "ok") =>
         /\ \A tr \in Triples :
               CountFor(notifications', tr[1], tr[2], tr[3]) =
                 IF Qualifies(tr[1], tr[2], tr[3], upstream', last_totals, milestones_sent)
                 THEN 1 ELSE 0
         /\ Len(notifications') =
               Cardinality({tr \in Triples :
                 Qualifies(tr[1], tr[2], tr[3], upstream', last_totals, milestones_sent)})]_vars

\* a pass that suppressed a crossed threshold found in the announced list, next to
\* one that notified two thresholds at once
C5_Witness ==
    /\ FetchedOk
    /\ \E tr \in Triples :
          /\ notified[tr] = 1
          /\ Announced(milestones_sent, IdStr(tr[1]), tr[2], tr[3])
          /\ upstream[tr[1]].tot[tr[2]] >= tr[3]
          /\ passes >= 3
          /\ CountFor(notifications, tr[1], tr[2], tr[3]) = 0

\* C6: update_milestone_state never removes an announced threshold and appends
\* the newly notified thresholds after the existing ones of their key and statistic
ThresholdsFor(notifs, k, s) ==
    LET sel == SelectSeq(notifs, LAMBDA n : SentKey(n) = k /\ n.stat = s)
    IN [i \in 1..Len(sel) |-> sel[i].threshold]

C6_OnlyAppends ==
    [][(passes' = passes + 1) =>
         /\ \A k \in DOMAIN milestones_sent : \A s \in DOMAIN milestones_sent[k] :
               /\ k \in DOMAIN milestones_sent'
               /\ s \in DOMAIN milestones_sent'[k]
               /\ milestones_sent'[k][s] =
                    milestones_sent[k][s] \o ThresholdsFor(notifications', k, s)
         /\ \A i \in DOMAIN notifications' :
               LET n == notifications'[i]
               IN /\ n.player \in DOMAIN milestones_sent'
                  /\ n.stat \in DOMAIN milestones_sent'[n.player]
                  /\ milestones_sent'[n.player][n.stat] =
                       Get(Get(milestones_sent, n.player, EmptyDict), n.stat, <<>>)
                         \o ThresholdsFor(notifications', n.player, n.stat)]_vars

C6_Witness ==
    \E k \in DOMAIN milestones_sent : \E s \in DOMAIN milestones_sent[k] :
        /\ Len(milestones_sent[k][s]) >= 2
        /\ \E i \in DOMAIN notifications :
              /\ notifications[i].player = k /\ notifications[i].stat = s
              /\ notifications[i].threshold = milestones_sent[k][s][Len(milestones_sent[k][s])]
        /\ Len(ThresholdsFor(notifications, k, s)) < Len(milestones_sent[k][s])

\* C7: when the fetch raises or yields no players, the pass returns no
\* notifications and the given last_totals and milestones_sent unchanged
C7_FailedFetchKeepsState ==
    [][(passes' = passes + 1 /\ (fetch' = "error" \/ \A p \in Players : ~upstream'[p].present)) =>
         /\ notifications' = <<>>
         /\ last_totals' = last_totals
         /\ milestones_sent' = milestones_sent]_vars

C7_Witness ==
    /\ passes >= 2
    /\ fetch = "error" \/ Listed = {}
    /\ notifications = <<>>
    /\ last_totals # EmptyDict
    /\ milestones_sent # EmptyDict

\* C4: after a poll cycle that fetched the current totals, the persisted
\* last_totals entry of every listed player equals the player's current values
C4_PersistedTotalsCurrent ==
    (FetchedOk /\ io = "ok") =>
        \A p \in Listed :
            /\ IdStr(p) \in DOMAIN last_totals
            /\ last_totals[IdStr(p)] = upstream[p].tot


----------------------------------------------------------------------------
(* Claims about the leaders *)

RECURSIVE SumSeasons(_, _, _)
SumSeasons(S, p, s) ==
    IF S = {} THEN 0
    ELSE LET q == CHOOSE q \in S : TRUE
         IN l_seasons[q][p][s] + SumSeasons(S \ {q}, p, s)

\* the total the last computation ranks player p by: the season's total in season
\* mode, the sum over the fetched seasons in career mode
RankedValue(p, s) ==
    IF l_call.mode = "season" THEN l_seasons[1][p][s]
    ELSE SumSeasons(Seasons \ l_call.failed, p, s)

RankedEntry(p, s) == [name |-> LName(p), value |-> RankedValue(p, s)]

Positive(s) == {p \in LPlayers : RankedValue(p, s) > 0}

\* a ranks no later than b: higher value, or equal value and lower-cased name not after
RanksBefore(a, b) ==
    \/ a.value > b.value
    \/ a.value = b.value /\ StrRank(Lower(a.name)) <= StrRank(Lower(b.name))

\* the last computation ranked a fetched player list
Ranked == l_call.mode = "career" \/ (l_call.mode = "season" /\ l_call.failed = {})

\* C8: every leaders list is the first n entries of the players with value > 0,
\* ordered by value descending, ties by lower-cased name ascending; length <= n
C8_TopNSorted ==
    Ranked =>
        \A s \in LStats :
            LET l == leaders[s]
            IN /\ Len(l) <= l_call.n
               /\ Len(l) = Min(l_call.n, Cardinality(Positive(s)))
               /\ \A i \in 1..Len(l) : \E p \in Positive(s) : l[i] = RankedEntry(p, s)
               /\ \A i \in 1..Len(l), j \in 1..Len(l) :
                     i < j => l[i] # l[j] /\ RanksBefore(l[i], l[j])
               /\ \A p \in Positive(s) :
                     (\A i \in 1..Len(l) : l[i] # RankedEntry(p, s)) =>
                         \A i \in 1..Len(l) : RanksBefore(l[i], RankedEntry(p, s))

\* a truncated list whose tie is decided by the lower-cased names against their
\* written order
C8_Witness ==
    /\ Ranked
    /\ l_call.n = 2
    /\ Cardinality(Positive("points")) > 2
    /\ Len(leaders["points"]) = 2
    /\ leaders["points"][1].value = leaders["points"][2].value
    /\ StrRank(leaders["points"][1].name) > StrRank(leaders["points"][2].name)

\* C10 as claimed: any failed fetch, a single season of several included, yields a
\* LeadersData in which every list is empty
C10_AnyFailureYieldsEmpty ==
    (l_call.mode # "none" /\ l_call.failed # {}) => leaders = EmptyLeaders

\* C10 as amended: a failed fetch is caught in both modes; season mode returns the
\* empty LeadersData, career mode returns the leaders of the totals summed over the
\* seasons that were fetched, a failed season counting as a season without players
C10_FailureCaught ==
    /\ (l_call.mode = "season" /\ l_call.failed # {}) => leaders = EmptyLeaders
    /\ (l_call.mode = "career" /\ l_call.failed # {}) =>
          \A s \in LStats :
              LET fetched == Seasons \ l_call.failed
                  scorers == {p \in LPlayers : SumSeasons(fetched, p, s) > 0}
              IN /\ Len(leaders[s]) = Min(l_call.n, Cardinality(scorers))
                 /\ \A i \in 1..Len(leaders[s]) : \E p \in scorers :
                       leaders[s][i] = [name |-> LName(p), value |-> SumSeasons(fetched, p, s)]
                 /\ fetched = {} => leaders[s] = <<>>

C10_Witness ==
    /\ l_call.mode = "career"
    /\ l_call.failed = {2}
    /\ \E p \in LPlayers :
          /\ l_seasons[2][p]["points"] > 0
          /\ l_seasons[1][p]["points"] > 0
          /\ \E i \in 1..Len(leaders["points"]) :
                leaders["points"][i] = [name |-> LName(p), value |-> l_seasons[1][p]["points"]]

\* C9: leaders_changed reports False for a statistic iff the first three (name,
\* value) entries of the current and the previous list are identical in content
\* and order; entries after the third never affect the result
SameLeading(a, b) ==
    /\ Min(3, Len(a)) = Min(3, Len(b))
    /\ \A i \in 1..Min(3, Len(a)) : a[i].name = b[i].name /\ a[i].value = b[i].value

C9_ChangedIffTop3Differ ==
    lc_changes # NoChanges =>
        \A s \in LStats :
            /\ lc_changes[s] \in BOOLEAN
            /\ lc_changes[s] = FALSE <=> SameLeading(lc_current[s], lc_previous[s])

C9_Witness ==
    /\ lc_changes # NoChanges
    /\ lc_changes["points"] = FALSE
    /\ lc_changes["assists"] = TRUE
    /\ Len(lc_current["points"]) = 4
    /\ Len(lc_previous["points"]) = 4
    /\ lc_current["points"][4] # lc_previous["points"][4]

----------------------------------------------------------------------------
(* Single-game records *)

\* the events among the first k collected whose extraction does not raise
RECURSIVE Extracted(_, _)
Extracted(events, k) ==
    IF k = 0 THEN <<>>
    ELSE Extracted(events, k - 1) \o (IF events[k].raises THEN <<>> ELSE <<events[k]>>)

\* the rows of a list of events, in order
RECURSIVE RowsOf(_)
RowsOf(events) == IF events = <<>> THEN <<>> ELSE Head(events).rows \o RowsOf(Tail(events))

\* the rows folded so far
FoldedRows == RowsOf(Extracted(r_events, r_done))

MaxOf(S) == CHOOSE m \in S : \A x \in S : x <= m

\* the record of stat is unset when rows is empty and else holds the largest value
HoldsMaximum(recs, stat, rows) ==
    IF rows = <<>> THEN recs[stat] = None
    ELSE recs[stat] # None /\ recs[stat].value = MaxOf({rows[i][stat] : i \in DOMAIN rows})

Orders(n) == {f \in [1..n -> 1..n] : \A i, j \in 1..n : f[i] = f[j] => i = j}

RECURSIVE FoldInOrder(_, _, _, _)
FoldInOrder(recs, events, order, k) ==
    IF k > Len(events) THEN recs
    ELSE FoldInOrder(FoldEvent(recs, events[order[k]]), events, order, k + 1)

RecordValue(recs, stat) == IF recs[stat] = None THEN 0 ELSE recs[stat].value

C11_MaximumSoFar ==
    /\ \A i \in DOMAIN CountStats : HoldsMaximum(records, CountStats[i], FoldedRows)
    /\ r_pc = "done" =>
         \A order \in Orders(Len(r_events)), i \in DOMAIN CountStats :
            LET other == FoldInOrder(RecordsData, r_events, order, 1)
            IN /\ (other[CountStats[i]] = None) = (records[CountStats[i]] = None)
               /\ RecordValue(other, CountStats[i]) = RecordValue(records, CountStats[i])

C11_NeverDecreases ==
    \A i \in DOMAIN CountStats :
        records[CountStats[i]] # None =>
            /\ records'[CountStats[i]] # None
            /\ records'[CountStats[i]].value >= records[CountStats[i]].value

\* C11: for each count statistic the record folded by _try_update_max holds the
\* maximum of the values of the rows folded so far, the value is the same for every
\* order in which the events are processed, and no further row makes it decrease
C11_FoldIsMaximum == [][C11_NeverDecreases /\ C11_MaximumSoFar']_vars

\* a scan that folded a 55-point row and then a 40-point row and kept 55
C11_Witness ==
    /\ r_pc = "done"
    /\ Len(FoldedRows) = 2
    /\ FoldedRows[1].points = 55
    /\ FoldedRows[2].points = 40
    /\ records.points.value = 55

\* C12: _try_update_max returns a record built from the candidate exactly when there
\* is no incumbent or the candidate's value is strictly greater; on an equal or lower
\* value it returns the incumbent with its holder, game and date
C12_StrictlyGreaterReplaces ==
    t_result # NotCalled =>
        IF t_current = None \/ t_candidate.value > t_current.value
        THEN /\ t_result.value = t_candidate.value
             /\ t_result.holder = t_candidate.holder
             /\ t_result.game = t_candidate.game
             /\ t_result.date = t_candidate.date
        ELSE /\ t_result = t_current
             /\ t_result.holder = t_current.holder
             /\ t_result.game = t_current.game
             /\ t_result.date = t_current.date

\* a candidate of another holder and game ties the incumbent, which is returned
C12_Witness ==
    /\ t_result # NotCalled
    /\ t_current # None
    /\ t_candidate.value = t_current.value
    /\ t_candidate.holder # t_current.holder
    /\ t_candidate.game # t_current.game
    /\ t_result = t_current

\* the folded rows with at least `minimum` attempts
Eligible(rows, attempts, minimum) == SelectSeq(rows, LAMBDA row : row[attempts] >= minimum)

\* C13: the fg_percent record comes from the rows with fga >= MIN_FGA_FOR_FG_PERCENT
\* only and the threep_percent record from the rows with threepa >=
\* MIN_3PA_FOR_3P_PERCENT only, whatever percentage the other rows have, while every
\* row competes for the count records
C13_PercentageMinimums ==
    /\ HoldsMaximum(records, "fg_percent", Eligible(FoldedRows, "fga", MIN_FGA_FOR_FG_PERCENT))
    /\ HoldsMaximum(records, "threep_percent",
                    Eligible(FoldedRows, "threepa", MIN_3PA_FOR_3P_PERCENT))
    /\ \A i \in DOMAIN CountStats : HoldsMaximum(records, CountStats[i], FoldedRows)

\* a row with too few attempts has the highest percentages seen and the most points:
\* it holds the points record and neither percentage record
C13_Witness ==
    /\ r_pc = "done"
    /\ records.fg_percent # None
    /\ records.threep_percent # None
    /\ \E i \in DOMAIN FoldedRows :
          /\ FoldedRows[i].fga < MIN_FGA_FOR_FG_PERCENT
          /\ FoldedRows[i].threepa < MIN_3PA_FOR_3P_PERCENT
          /\ FoldedRows[i].fg_percent > records.fg_percent.value
          /\ FoldedRows[i].threep_percent > records.threep_percent.value
          /\ FoldedRows[i].points = records.points.value
          /\ FoldedRows[i].name = records.points.holder
          /\ records.fg_percent.holder # FoldedRows[i].name

\* the statistics of the row that reached 10
Reached(row) == {StatsToCheck[i] : i \in {j \in DOMAIN StatsToCheck : row[StatsToCheck[j]] >= 10}}

\* the achievements are exactly one entry with exactly the categories reached
OneAchievement(list, row) ==
    /\ Len(list) = 1
    /\ Range(list[1].categories) = Reached(row)
    /\ Len(list[1].categories) = Cardinality(Reached(row))
    /\ DOMAIN list[1].values = Reached(row)
    /\ \A stat \in Reached(row) : list[1].values[stat] = row[stat]

\* C14: a row yields exactly one TripleDouble iff at least 3 of the five statistics
\* are >= 10, exactly one DoubleDouble iff exactly 2 are, nothing otherwise, never
\* both, and the recorded categories are exactly the statistics that reached 10
C14_DoubleOrTriple ==
    d_records # NotCalled =>
        LET n == Cardinality(Reached(d_row))
        IN /\ IF n >= 3 THEN OneAchievement(d_records.triple_doubles, d_row)
                        ELSE d_records.triple_doubles = <<>>
           /\ IF n = 2 THEN OneAchievement(d_records.double_doubles, d_row)
                       ELSE d_records.double_doubles = <<>>
           /\ ~(d_records.triple_doubles # <<>> /\ d_records.double_doubles # <<>>)

\* a row with exactly three statistics at 10 or more, one of them exactly 10
C14_Witness ==
    /\ d_records # NotCalled
    /\ Cardinality(Reached(d_row)) = 3
    /\ d_row.points = 10
    /\ d_row.steals = 9
    /\ Len(d_records.triple_doubles) = 1
    /\ d_records.double_doubles = <<>>

\* C15: when the request for a page of events raises, at whatever page, the returned
\* RecordsData has every record unset and both achievement lists empty
C15_FetchFailureYieldsUnset ==
    (r_pc = "done" /\ r_stop = "error") => records = RecordsData

\* C16: an event whose row extraction raises is skipped and nothing else: the scan
\* returns, and what it has folded is what the other events alone fold to
C16_SkipsOnlyTheFailedEvent ==
    /\ records = FoldRows(RecordsData, FoldedRows)
    /\ r_pc = "done" =>
         /\ r_done = Len(r_events)
         /\ records = FoldRows(RecordsData, RowsOf(Extracted(r_events, Len(r_events))))

\* a scan whose first event yields a row and whose second event raises
C16_Witness ==
    /\ r_pc = "done"
    /\ Len(r_events) = 2
    /\ ~r_events[1].raises
    /\ r_events[2].raises
    /\ records.points # None
    /\ records.points.value = r_events[1].rows[1].points

----------------------------------------------------------------------------
(* The HTTP client *)

\* C17: once a request of paginate was answered with a page of fewer than per_page
\* items, no further page request is issued
C17_ShortPageIsLast ==
    \A i \in DOMAIN h_log : h_log[i].answer = "short" => i = Len(h_log)

LastRequest == h_log[Len(h_log)]

\* the get_json call of the last request has returned or raised
CallOver == h_log # <<>> /\ h_attempt = 0

\* C18: when a page request of paginate was answered with HTTP 400, pagination has
\* ended normally once get_json is through with it: no error reaches the consumer
\* and the items yielded from the earlier pages are what it has
C18_Http400EndsPagination ==
    (CallOver /\ LastRequest.answer = "400") => (h_pc = "done" /\ h_error = "none")

Succeeds(answer) == answer \in {"full", "short", "empty", "object"}
FailsRetried(answer) == answer \in {"400", "status", "transient"}

\* what a step of get_json does, given the request it has just logged
C19_Attempt ==
    h_log' # h_log =>
        LET request == h_log'[Len(h_log')]
        IN /\ h_log' = Append(h_log, request)
           /\ request.page = h_page
           /\ request.attempt = h_attempt + 1
           /\ request.attempt <= 3
           /\ (FailsRetried(request.answer) /\ request.attempt < 3) =>
                 /\ h_pc' = "run"
                 /\ h_page' = h_page
                 /\ h_attempt' = request.attempt
                 /\ h_yielded' = h_yielded
           /\ Succeeds(request.answer) =>
                 /\ h_attempt' = 0
                 /\ h_error' = "none"
                 /\ h_yielded' = h_yielded \o Json(request.answer, h_page).items
           /\ (FailsRetried(request.answer) /\ request.attempt = 3) =>
                 /\ h_pc' = "raised"
                 /\ h_error' = "RetryError"
                 /\ h_attempt' = 0

C20_AtMostTenInFlight == g_gated + g_direct <= RateLimit


----------------------------------------------------------------------------
(* Claims about the state file *)

\* C21: at every step of save_state, a crash or a write error included, the state
\* file holds the complete old state or the complete new state; after a failure
\* save_state has returned False and the file is what it was before the call
C21_OldOrNewState ==
    /\ f_files[StatePath] \in {s_old, JsonOf(s_state)}
    /\ s_pc = "returned" => s_result \in {"True", "False"}
    /\ s_result = "False" => f_files[StatePath] = s_old
    /\ s_result = "True" => f_files[StatePath] = JsonOf(s_state)

\* the process died after json.dump and before the rename: the temporary file
\* holds the new state, the state file still the old one
C21_Witness ==
    /\ s_pc = "crashed"
    /\ f_files[temp_path(StatePath)] = JsonOf(s_state)
    /\ f_files[StatePath] = s_old
    /\ s_old \notin {Absent, JsonOf(s_state)}

\* C22: load_state raises nothing; when the state file is absent, unreadable or
\* not parseable it returns the default empty state
C22_LoadNeverRaises ==
    ld_result # NotCalled =>
        /\ ~ld_result.raises
        /\ ld_content.kind # "json" => ld_result.state = DefaultState
        /\ ld_content.kind = "json" => ld_result.state = ld_content.state

C22_Witness ==
    /\ ld_result # NotCalled
    /\ ld_content.kind = "unreadable"
    /\ ld_result.state = DefaultState

C28_FailedFetchSilent == lm_fetch = "error" => (~lm_sent /\ ~lm_saved)


----------------------------------------------------------------------------
(* Claims about the name caches *)

\* C23: with calls made one after the other, at most one upstream lookup is
\* issued per player or team id between two clears of the cache, also when the
\* first lookup failed and the fallback name was cached
C23_OneLookupPerId ==
    /\ \A key \in NameKeys : n_lookups[key] <= 1
    /\ n_last.hit => n_lookups[n_last.key] = 1

\* a call answered from the cache with the fallback a failed lookup left there
C23_Witness ==
    /\ n_last.hit
    /\ n_last.name = FallbackName(n_last.key[1], n_last.key[2])
    /\ n_lookups[n_last.key] = 1
    /\ n_calls >= 3

\* C26: once a looked-up name has been returned for an id, every later call
\* returns that name until the cache is cleared, whatever a concurrent lookup
\* that fails does
C26_NameStaysResolved ==
    (n_last.hit /\ n_last.key \in DOMAIN n_resolved) => n_last.name = n_resolved[n_last.key]


----------------------------------------------------------------------------
(* Claims about the rows of an event *)

\* the call returned rows
RowsReturned == e_result # NotCalled /\ ~e_result.raises

\* C24: in the performance map and in the flat box-score list alike, no row is
\* produced for an entry whose player id is "0"
C24_NoRowForIdZero ==
    RowsReturned => \A i \in 1 .. Len(e_result.rows) : e_result.rows[i].player_id # KeyInt("0")

\* C25: whatever the payload, the call raises nothing and returns a list, the
\* empty one when neither the performance map nor the box score holds an entry
C25_NeverRaises ==
    e_result # NotCalled =>
        /\ ~e_result.raises
        /\ (e_event.performance = NoPerformance /\ e_event.boxscore = <<>>) =>
              e_result.rows = <<>>

\* the entries of the one encoding the payload uses
EntriesOf(event) ==
    IF event.performance # NoPerformance THEN event.performance.players ELSE event.boxscore

\* C30: every row carries the field-goal attempts and the three-point attempts
\* of its entry in fga and threepa, so that an entry with MIN_3PA_FOR_3P_PERCENT
\* attempts or more passes the test compute_single_game_records makes on threepa
C30_RowsCarryAttempts ==
    (/\ RowsReturned
     /\ e_event.performance = NoPerformance \/ e_event.boxscore = <<>>
     /\ Len(e_result.rows) = Len(EntriesOf(e_event))) =>
        \A i \in 1 .. Len(e_result.rows) :
            LET entry == EntriesOf(e_event)[i]
                row == e_result.rows[i]
            IN /\ row.fga = _safe_extract_float(entry.stats.fga)
               /\ row.threepa = _safe_extract_float(entry.stats.threepa)
               /\ _safe_extract_float(entry.stats.threepa) >= MIN_3PA_FOR_3P_PERCENT =>
                     row.threepa >= MIN_3PA_FOR_3P_PERCENT


----------------------------------------------------------------------------
(* Claims about the record monitor *)

\* C29: after the first cycle a record is announced only when its value is
\* strictly greater than every value remembered for its type earlier, so that a
\* failed or empty scan does not make a later cycle announce an unchanged record
C29_AnnouncedOnlyWhenGreater ==
    k_cycles > 1 =>
        \A t \in k_announced : RememberedValue(previous_records, t) > k_best[t]

====
